---- MODULE Spec2Model ----
(***************************************************************************)
(* Word-to-Markdown conversion pipeline of the MarkInk extension            *)
(* (word/converter.ts): image sink callbacks, table classifier, table       *)
(* isolator, Markdown emitter rules and simple table renderer.              *)
(*                                                                          *)
(* Strings are sequences of one-character strings, so that every regex      *)
(* replace, padding and length of the source is computed character by       *)
(* character.  A DOM node is a record [tag, attrs, kids, text]; the live    *)
(* document that preprocessComplexTables mutates is an arena (a sequence    *)
(* of nodes with parent and child ids).                                     *)
(***************************************************************************)
EXTENDS Integers, Sequences, FiniteSets, TLC

\* ------------------------------------------------------------------ bounds
MaxRows == 2
MaxCols == 2
MaxImages == 3
MaxCallImages == 2
MaxFiles == 2
MaxNameLen == 3

\* ------------------------------------------------------------ characters
Digits == <<"0", "1", "2", "3", "4", "5", "6", "7", "8", "9">>

IsDigit(c) == \E d \in 1..10 : Digits[d] = c

DigitVal(c) == (CHOOSE d \in 1..10 : Digits[d] = c) - 1

\* JavaScript white space as far as the inputs of the model go
IsSpace(c) == c \in {" ", "\t", "\n", "\r"}

\* the concatenation of a sequence of strings (split in halves, so that the
\* depth of the evaluation stays logarithmic in the length)
RECURSIVE Concat(_)
Concat(ss) ==
    IF Len(ss) = 0 THEN <<>>
    ELSE IF Len(ss) = 1 THEN ss[1]
    ELSE LET m == Len(ss) \div 2
         IN Concat(SubSeq(ss, 1, m)) \o Concat(SubSeq(ss, m + 1, Len(ss)))

\* a function on 1..n as the sequence of its values, computed once
AsSeq(f) == f \o <<>>

\* c.repeat(n)
Repeat(c, n) == AsSeq([k \in 1..n |-> c])

Max(a, b) == IF a >= b THEN a ELSE b

\* s occurs in t as a contiguous run of characters
Contains(t, s) ==
    \E k \in 0..(Len(t) - Len(s)) : SubSeq(t, k + 1, k + Len(s)) = s

\* ------------------------------------------------------------------- DOM
TextTag == "#text"

Elem(tag, attrs, kids) == [tag |-> tag, attrs |-> attrs, kids |-> kids, text |-> <<>>]

TextNode(chars) == [tag |-> TextTag, attrs |-> <<>>, kids |-> <<>>, text |-> chars]

Attr(name, value) == [name |-> name, value |-> value]

\* element.getAttribute(name): the value, or Null when the attribute is absent
Null == <<"null">>

getAttribute(node, name) ==
    IF \E k \in 1..Len(node.attrs) : node.attrs[k].name = name
    THEN node.attrs[CHOOSE k \in 1..Len(node.attrs) : node.attrs[k].name = name].value
    ELSE Null

\* the characters of the tag and attribute names the documents use
NameChars(n) ==
    CASE n = "table" -> <<"t", "a", "b", "l", "e">>
      [] n = "tbody" -> <<"t", "b", "o", "d", "y">>
      [] n = "tr" -> <<"t", "r">>
      [] n = "td" -> <<"t", "d">>
      [] n = "th" -> <<"t", "h">>
      [] n = "p" -> <<"p">>
      [] n = "div" -> <<"d", "i", "v">>
      [] n = "strong" -> <<"s", "t", "r", "o", "n", "g">>
      [] n = "sup" -> <<"s", "u", "p">>
      [] n = "br" -> <<"b", "r">>
      [] n = "img" -> <<"i", "m", "g">>
      [] n = "ul" -> <<"u", "l">>
      [] n = "ol" -> <<"o", "l">>
      [] n = "li" -> <<"l", "i">>
      [] n = "complex-table" ->
            <<"c", "o", "m", "p", "l", "e", "x", "-", "t", "a", "b", "l", "e">>
      [] n = "colspan" -> <<"c", "o", "l", "s", "p", "a", "n">>
      [] n = "rowspan" -> <<"r", "o", "w", "s", "p", "a", "n">>
      [] n = "src" -> <<"s", "r", "c">>
      [] n = "data-html" -> <<"d", "a", "t", "a", "-", "h", "t", "m", "l">>

IsVoid(tag) == tag \in {"br", "img"}

\* ------------------------------------------------- live document (arena)
\* The parsed document: node id -> [tag, attrs, text, parent, kids], ids in
\* document order, parent = 0 for the root and for a detached node.
RECURSIVE Size(_)
Size(t) ==
    LET RECURSIVE Sum(_)
        Sum(ks) == IF ks = <<>> THEN 0 ELSE Size(Head(ks)) + Sum(Tail(ks))
    IN 1 + Sum(t.kids)

RECURSIVE Flatten(_, _, _)
Flatten(t, parent, id) ==
    LET RECURSIVE KidIds(_, _)
        KidIds(ks, next) ==
            IF ks = <<>> THEN <<>>
            ELSE <<next>> \o KidIds(Tail(ks), next + Size(Head(ks)))
        RECURSIVE KidNodes(_, _)
        KidNodes(ks, next) ==
            IF ks = <<>> THEN <<>>
            ELSE Flatten(Head(ks), id, next) \o KidNodes(Tail(ks), next + Size(Head(ks)))
    IN <<[tag |-> t.tag, attrs |-> t.attrs, text |-> t.text,
          parent |-> parent, kids |-> KidIds(t.kids, id + 1)]>>
       \o KidNodes(t.kids, id + 1)

\* new JSDOM(html).window.document, as the arena rooted at <body> (id 1)
BodyId == 1

ParseDocument(blocks) == Flatten(Elem("body", <<>>, blocks), 0, BodyId)

\* the subtree of node id, as a tree value
RECURSIVE ToTree(_, _)
ToTree(store, id) ==
    [tag |-> store[id].tag, attrs |-> store[id].attrs, text |-> store[id].text,
     kids |-> AsSeq([k \in 1..Len(store[id].kids) |-> ToTree(store, store[id].kids[k])])]

\* ---------------------------------------------------------- serialization
\* HTML fragment serialization of text and of attribute values
EscapeText(s) ==
    Concat(AsSeq([k \in 1..Len(s) |->
               CASE s[k] = "&" -> <<"&", "a", "m", "p", ";">>
                 [] s[k] = "<" -> <<"&", "l", "t", ";">>
                 [] s[k] = ">" -> <<"&", "g", "t", ";">>
                 [] OTHER -> <<s[k]>>]))

EscapeAttr(s) ==
    Concat(AsSeq([k \in 1..Len(s) |->
               CASE s[k] = "&" -> <<"&", "a", "m", "p", ";">>
                 [] s[k] = "\"" -> <<"&", "q", "u", "o", "t", ";">>
                 [] OTHER -> <<s[k]>>]))

\* the character references the parser decodes, each with its character
Entities ==
    { [ref |-> <<"&", "a", "m", "p", ";">>, char |-> "&"],
      [ref |-> <<"&", "q", "u", "o", "t", ";">>, char |-> "\""],
      [ref |-> <<"&", "l", "t", ";">>, char |-> "<"],
      [ref |-> <<"&", "g", "t", ";">>, char |-> ">"] }

\* the reference that starts at position k of s, if any
EntityAt(s, k) ==
    {e \in Entities : k + Len(e.ref) - 1 <= Len(s) /\ SubSeq(s, k, k + Len(e.ref) - 1) = e.ref}

\* the HTML parser's decoding of character references, left to right: a
\* reference gives its character, the characters it spans give nothing
UnescapeAttr(s) ==
    Concat(AsSeq([k \in 1..Len(s) |->
               IF EntityAt(s, k) # {} THEN <<(CHOOSE e \in EntityAt(s, k) : TRUE).char>>
               ELSE IF \E j \in 1..(k - 1) :
                         \E e \in EntityAt(s, j) : k <= j + Len(e.ref) - 1
               THEN <<>>
               ELSE <<s[k]>>]))

SerializeAttrs(attrs) ==
    Concat(AsSeq([k \in 1..Len(attrs) |->
               <<" ">> \o NameChars(attrs[k].name) \o <<"=", "\"">>
               \o EscapeAttr(attrs[k].value) \o <<"\"">>]))

\* element.outerHTML of a tree value
RECURSIVE Serialize(_)
Serialize(t) ==
    IF t.tag = TextTag THEN EscapeText(t.text)
    ELSE <<"<">> \o NameChars(t.tag) \o SerializeAttrs(t.attrs) \o <<">">>
         \o (IF IsVoid(t.tag) THEN <<>>
             ELSE Concat(AsSeq([k \in 1..Len(t.kids) |-> Serialize(t.kids[k])]))
                  \o <<"<", "/">> \o NameChars(t.tag) \o <<">">>)

\* table.outerHTML on the live document
outerHTML(store, id) == Serialize(ToTree(store, id))

\* ------------------------------------------------------------ DOM queries
\* the descendants of node id in document order (id itself excluded)
RECURSIVE Descendants(_, _)
Descendants(store, id) ==
    Concat(AsSeq([k \in 1..Len(store[id].kids) |->
               <<store[id].kids[k]>> \o Descendants(store, store[id].kids[k])]))

\* root.querySelectorAll('t1, t2, ...'): a static list in document order
querySelectorAll(store, root, tags) ==
    LET d == Descendants(store, root)
    IN SelectSeq(d, LAMBDA n : store[n].tag \in tags)

\* (mutant) no ancestor is ever found
closestNone(store, id, tag) == 0

\* element.closest(tag): the element itself or its nearest ancestor with the
\* tag, 0 when there is none; id 0 (no element) gives 0
RECURSIVE closest(_, _, _)
closest(store, id, tag) ==
    IF id = 0 THEN 0
    ELSE IF store[id].tag = tag THEN id
    ELSE closest(store, store[id].parent, tag)

\* parseInt(s, 10): leading white space, an optional sign, then the longest
\* run of digits; NaN when there is no digit
NaN == [nan |-> TRUE, val |-> 0]

RECURSIVE SkipSpace(_)
SkipSpace(s) == IF s # <<>> /\ IsSpace(Head(s)) THEN SkipSpace(Tail(s)) ELSE s

RECURSIVE DigitRun(_, _)
DigitRun(s, acc) ==
    IF s # <<>> /\ IsDigit(Head(s))
    THEN DigitRun(Tail(s), [nan |-> FALSE, val |-> 10 * acc.val + DigitVal(Head(s))])
    ELSE acc

\* (mutant) NaN unless the value is digits to its end
parseWhole(str) ==
    LET s == SkipSpace(str)
        body == IF s # <<>> /\ Head(s) \in {"-", "+"} THEN Tail(s) ELSE s
    IN IF \E k \in 1..Len(body) : ~IsDigit(body[k]) THEN NaN
       ELSE IF Head(s) = "-" THEN [nan |-> FALSE, val |-> 0 - DigitRun(body, NaN).val]
       ELSE DigitRun(body, NaN)

parseInt(str) ==
    LET s == SkipSpace(str)
        neg == s # <<>> /\ Head(s) = "-"
        body == IF s # <<>> /\ Head(s) \in {"-", "+"} THEN Tail(s) ELSE s
        r == DigitRun(body, NaN)
    IN IF r.nan THEN NaN ELSE [nan |-> FALSE, val |-> IF neg THEN 0 - r.val ELSE r.val]

\* (mutant) the comparison with >= in place of >
JsGe(n, k) == ~n.nan /\ n.val >= k

\* n > k in JavaScript: false for NaN
JsGt(n, k) == ~n.nan /\ n.val > k

\* a string in a condition: null and '' are falsy
Truthy(s) == s # Null /\ s # <<>>

\* ------------------------------------------------------- Table Classifier
RECURSIVE SpanLoop(_, _, _)
SpanLoop(store, cells, i) ==
    IF i > Len(cells) THEN FALSE
    ELSE LET colspan == getAttribute(store[cells[i]], "colspan")
             rowspan == getAttribute(store[cells[i]], "rowspan")
         IN IF (Truthy(colspan) /\ JsGt(parseInt(colspan), 1))
               \/ (Truthy(rowspan) /\ JsGt(parseInt(rowspan), 1))
            THEN TRUE
            ELSE SpanLoop(store, cells, i + 1)

\* (mutant) the classifier without its three early returns
isComplexTableBySpans(store, table) ==
    SpanLoop(store, querySelectorAll(store, table, {"td", "th"}), 1)

isComplexTable(store, table) ==
    IF Len(querySelectorAll(store, table, {"img"})) > 0 THEN TRUE
    ELSE IF Len(querySelectorAll(store, table, {"ul", "ol"})) > 0 THEN TRUE
    ELSE IF Len(querySelectorAll(store, table, {"table"})) > 0 THEN TRUE
    ELSE SpanLoop(store, querySelectorAll(store, table, {"td", "th"}), 1)

\* --------------------------------------------------------- Table Isolator
PlaceholderText ==
    <<"C", "O", "M", "P", "L", "E", "X", "_", "T", "A", "B", "L", "E", "_",
      "P", "L", "A", "C", "E", "H", "O", "L", "D", "E", "R">>

\* (mutant) table.remove() followed by parent.appendChild(wrapper): the
\* wrapper goes to the end of the child list
removeThenAppend(store, wrapper, table) ==
    LET parent == store[table].parent
    IN AsSeq([n \in 1..Len(store) |->
          IF n = parent
          THEN [store[n] EXCEPT !.kids =
                  SelectSeq(store[n].kids, LAMBDA kid : kid # table) \o <<wrapper>>]
          ELSE IF n = table THEN [store[n] EXCEPT !.parent = 0]
          ELSE IF n = wrapper THEN [store[n] EXCEPT !.parent = parent]
          ELSE store[n]])

\* parent.replaceChild(wrapper, table): wrapper takes table's place in the
\* child list of table's parent, table is detached
replaceChild(store, wrapper, table) ==
    LET parent == store[table].parent
    IN AsSeq([n \in 1..Len(store) |->
          IF n = parent
          THEN [store[n] EXCEPT !.kids =
                  AsSeq([k \in 1..Len(store[n].kids) |->
                      IF store[n].kids[k] = table THEN wrapper ELSE store[n].kids[k]])]
          ELSE IF n = table THEN [store[n] EXCEPT !.parent = 0]
          ELSE IF n = wrapper THEN [store[n] EXCEPT !.parent = parent]
          ELSE store[n]])

\* doc.createElement('complex-table') with its data-html attribute and its
\* text content: two new nodes at the end of the arena
WrapTable(store, table) ==
    LET wrapper == Len(store) + 1
        created == store \o
            <<[tag |-> "complex-table",
               attrs |-> <<Attr("data-html", outerHTML(store, table))>>,
               text |-> <<>>, parent |-> 0, kids |-> <<wrapper + 1>>],
              [tag |-> TextTag, attrs |-> <<>>, text |-> PlaceholderText,
               parent |-> wrapper, kids |-> <<>>]>>
    IN IF store[table].parent = 0 THEN created
       ELSE replaceChild(created, wrapper, table)

\* the body of the loop over allTables
RECURSIVE IsolateLoop(_, _, _)
IsolateLoop(store, allTables, i) ==
    IF i > Len(allTables) THEN store
    ELSE LET table == allTables[i]
         IN IF closest(store, store[table].parent, "table") # 0
            THEN IsolateLoop(store, allTables, i + 1)
            ELSE IF isComplexTable(store, table)
            THEN IsolateLoop(WrapTable(store, table), allTables, i + 1)
            ELSE IsolateLoop(store, allTables, i + 1)

\* the live document when preprocessComplexTables returns
preprocessComplexTables(blocks) ==
    LET doc == ParseDocument(blocks)
        allTables == querySelectorAll(doc, BodyId, {"table"})
    IN IsolateLoop(doc, allTables, 1)

\* what an HTML parser builds from the serialization of a tree: the
\* structure, with text and attribute values decoded from their escaped form
RECURSIVE Reparse(_)
Reparse(t) ==
    [tag |-> t.tag,
     attrs |-> AsSeq([k \in 1..Len(t.attrs) |->
                  Attr(t.attrs[k].name, UnescapeAttr(EscapeAttr(t.attrs[k].value)))]),
     text |-> UnescapeAttr(EscapeText(t.text)),
     kids |-> AsSeq([k \in 1..Len(t.kids) |-> Reparse(t.kids[k])])]

\* ------------------------------------------------------- string methods
\* s.replace(/c/g, repl) for a single character c
ReplaceChar(s, c, repl) ==
    Concat(AsSeq([k \in 1..Len(s) |-> IF s[k] = c THEN repl ELSE <<s[k]>>]))

RECURSIVE TrimStart(_)
TrimStart(s) == IF s # <<>> /\ IsSpace(Head(s)) THEN TrimStart(Tail(s)) ELSE s

RECURSIVE TrimEnd(_)
TrimEnd(s) ==
    IF s # <<>> /\ IsSpace(s[Len(s)]) THEN TrimEnd(SubSeq(s, 1, Len(s) - 1)) ELSE s

\* s.trim()
Trim(s) == TrimEnd(TrimStart(s))

\* (mutant) the string as it is, not padded
padNone(s, w) == s

\* s.padEnd(w)
PadEnd(s, w) == s \o Repeat(" ", w - Len(s))

\* parts.join(sep)
JoinWith(parts, sep) ==
    Concat(AsSeq([k \in 1..Len(parts) |-> IF k = 1 THEN parts[k] ELSE sep \o parts[k]]))

\* ------------------------------------------- Markdown Emitter (Turndown)
\* node.textContent
RECURSIVE textContent(_)
textContent(t) ==
    IF t.tag = TextTag THEN t.text
    ELSE Concat(AsSeq([k \in 1..Len(t.kids) |-> textContent(t.kids[k])]))

\* some descendant of t has one of the tags
RECURSIVE HasDescendant(_, _)
HasDescendant(t, tags) ==
    \E k \in 1..Len(t.kids) :
        t.kids[k].tag \in tags \/ HasDescendant(t.kids[k], tags)

BlockElements ==
    {"p", "div", "table", "tbody", "tr", "td", "th", "ul", "ol", "li", "body"}

MeaningfulWhenBlank == {"table", "tbody", "th", "td"}

\* Turndown's Node.isBlank: such a node gets the blank rule before any other
isBlank(t) ==
    /\ ~IsVoid(t.tag)
    /\ t.tag \notin MeaningfulWhenBlank
    /\ \A k \in 1..Len(textContent(t)) : IsSpace(textContent(t)[k])
    /\ ~HasDescendant(t, {"br", "img"})
    /\ ~HasDescendant(t, MeaningfulWhenBlank)

\* collapseWhitespace on a text node: every run of white space is one space
CollapseWhitespace(s) ==
    Concat(AsSeq([k \in 1..Len(s) |->
               IF ~IsSpace(s[k]) THEN <<s[k]>>
               ELSE IF k > 1 /\ IsSpace(s[k - 1]) THEN <<>>
               ELSE <<" ">>]))

\* TurndownService.escape: Markdown syntax characters of a text node
EscapeMarkdown(s) ==
    Concat(AsSeq([k \in 1..Len(s) |->
               IF s[k] \in {"\\", "*", "_", "[", "]"} THEN <<"\\", s[k]>> ELSE <<s[k]>>]))

RECURSIVE TrimLeadingNewlines(_)
TrimLeadingNewlines(s) ==
    IF s # <<>> /\ Head(s) = "\n" THEN TrimLeadingNewlines(Tail(s)) ELSE s

RECURSIVE TrimTrailingNewlines(_)
TrimTrailingNewlines(s) ==
    IF s # <<>> /\ s[Len(s)] = "\n"
    THEN TrimTrailingNewlines(SubSeq(s, 1, Len(s) - 1)) ELSE s

\* Turndown's join: at most two newlines between two replacements
join(output, replacement) ==
    LET s1 == TrimTrailingNewlines(output)
        s2 == TrimLeadingNewlines(replacement)
        nls == Max(Len(output) - Len(s1), Len(replacement) - Len(s2))
    IN s1 \o SubSeq(<<"\n", "\n">>, 1, IF nls > 2 THEN 2 ELSE nls) \o s2

\* Turndown's postProcess: leading [\t\r\n]+ and trailing white space go
RECURSIVE StripLeadingBreaks(_)
StripLeadingBreaks(s) ==
    IF s # <<>> /\ Head(s) \in {"\t", "\r", "\n"} THEN StripLeadingBreaks(Tail(s)) ELSE s

postProcess(output) == TrimEnd(StripLeadingBreaks(output))

\* (mutant) the complexTable rule without the empty lines around the markup
complexTableInline(node) ==
    LET attr == getAttribute(node, "data-html")
    IN IF Truthy(attr) THEN attr ELSE <<>>

\* the complexTable rule (converter.ts) of the emitter
complexTableReplacement(node) ==
    LET attr == getAttribute(node, "data-html")
        originalHtml == IF Truthy(attr) THEN attr ELSE <<>>
    IN <<"\n", "\n">> \o originalHtml \o <<"\n", "\n">>

RECURSIVE process(_, _, _)
RECURSIVE replacementForNode(_)
RECURSIVE convertSimpleTableToMarkdown(_)
RECURSIVE getCellContent(_)

\* turndownService.turndown(html), html given as the list of nodes it parses to
turndown(nodes) == IF nodes = <<>> THEN <<>> ELSE postProcess(process(nodes, 1, <<>>))

\* Turndown's process: the replacements of the child nodes, joined in order
process(nodes, i, output) ==
    IF i > Len(nodes) THEN output
    ELSE LET node == nodes[i]
             replacement ==
                 IF node.tag = TextTag
                 THEN EscapeMarkdown(CollapseWhitespace(node.text))
                 ELSE replacementForNode(node)
         IN process(nodes, i + 1, join(output, replacement))

\* Turndown's replacementForNode with the rules in their order of precedence:
\* blank, simpleTable, complexTable, the built-in rules, keep, default
replacementForNode(node) ==
    IF isBlank(node)
    THEN (IF node.tag \in BlockElements THEN <<"\n", "\n">> ELSE <<>>)
    ELSE IF node.tag = "table" THEN convertSimpleTableToMarkdown(node)
    ELSE IF node.tag = "complex-table" THEN complexTableReplacement(node)
    ELSE IF node.tag = "p"
         THEN <<"\n", "\n">> \o process(node.kids, 1, <<>>) \o <<"\n", "\n">>
    ELSE IF node.tag = "br" THEN <<" ", " ", "\n">>
    ELSE IF node.tag = "strong"
         THEN (LET content == process(node.kids, 1, <<>>)
               IN IF Trim(content) = <<>> THEN <<>>
                  ELSE <<"*", "*">> \o content \o <<"*", "*">>)
    ELSE IF node.tag = "img"
         THEN (LET src == getAttribute(node, "src")
               IN IF Truthy(src) THEN <<"!", "[", "]", "(">> \o src \o <<")">>
                  ELSE <<>>)
    ELSE IF node.tag = "sup" THEN Serialize(node)
    ELSE IF node.tag \in BlockElements
         THEN <<"\n", "\n">> \o process(node.kids, 1, <<>>) \o <<"\n", "\n">>
    ELSE process(node.kids, 1, <<>>)

\* ------------------------------------------------- Simple Table Renderer
\* (mutant) getCellContent without the replacement of '|'
getCellContentPipesKept(cellKids) ==
    LET markdown == turndown(cellKids)
    IN Trim(ReplaceChar(markdown, "\n", <<" ">>))

getCellContent(cellKids) ==
    LET markdown == turndown(cellKids)
    IN Trim(ReplaceChar(ReplaceChar(markdown, "|", <<"\\", "|">>), "\n", <<" ">>))

\* (mutant) the length of the header row in place of the maximum
HeaderRowLength(rows) == IF rows = <<>> THEN 0 ELSE Len(Head(rows))

\* Math.max(...rows.map(r => r.length))
RECURSIVE MaxRowLength(_)
MaxRowLength(rows) ==
    IF rows = <<>> THEN 0 ELSE Max(Len(Head(rows)), MaxRowLength(Tail(rows)))

\* the loop that widens colWidths by every cell of every row
RECURSIVE WidenLoop(_, _, _)
WidenLoop(colWidths, rows, r) ==
    IF r > Len(rows) THEN colWidths
    ELSE WidenLoop(AsSeq([i \in 1..Len(colWidths) |->
                       IF i <= Len(rows[r])
                       THEN Max(colWidths[i], Len(rows[r][i])) ELSE colWidths[i]]),
                   rows, r + 1)

\* one header or data line: colCount cells, absent cells as ''
TableLine(row, colCount, colWidths) ==
    <<"|", " ">>
    \o JoinWith(AsSeq([i \in 1..colCount |->
                    PadEnd(IF i <= Len(row) THEN row[i] ELSE <<>>, colWidths[i])]),
                <<" ", "|", " ">>)
    \o <<" ", "|">>

convertSimpleTableToMarkdown(tableNode) ==
    LET dom == ParseDocument(<<Reparse(tableNode)>>)
        tables == querySelectorAll(dom, BodyId, {"table"})
        tableRows == querySelectorAll(dom, tables[1], {"tr"})
        allRows == AsSeq([r \in 1..Len(tableRows) |->
                      LET tableCells == querySelectorAll(dom, tableRows[r], {"td", "th"})
                      IN AsSeq([c \in 1..Len(tableCells) |->
                            getCellContent(ToTree(dom, tableCells[c]).kids)])])
        rows == SelectSeq(allRows, LAMBDA cells : Len(cells) > 0)
        colCount == MaxRowLength(rows)
        colWidths == WidenLoop(AsSeq([i \in 1..colCount |-> 3]), rows, 1)
        separators == AsSeq([i \in 1..colCount |-> Repeat("-", colWidths[i])])
        lines == <<TableLine(rows[1], colCount, colWidths),
                   <<"|", " ">> \o JoinWith(separators, <<" ", "|", " ">>) \o <<" ", "|">> >>
                 \o AsSeq([r \in 1..(Len(rows) - 1) |->
                        TableLine(rows[r + 1], colCount, colWidths)])
    IN IF tables = <<>> THEN <<>>
       ELSE IF Len(rows) = 0 THEN <<>>
       ELSE <<"\n">> \o JoinWith(lines, <<"\n">>) \o <<"\n">>

\* ------------------------------------------------------------ Image Sink
\* String(n) for n >= 0
RECURSIVE ToDecimal(_)
ToDecimal(n) ==
    IF n < 10 THEN <<Digits[n + 1]>>
    ELSE ToDecimal(n \div 10) \o <<Digits[(n % 10) + 1]>>

\* s.padStart(w, c)
PadStart(s, w, c) == Repeat(c, w - Len(s)) \o s

\* image.contentType as the provider reports it; NoContentType when absent
NoContentType == "none"

\* extMap[contentType], Null when the table has no such key
extMap(contentType) ==
    CASE contentType = "image/png" -> <<".", "p", "n", "g">>
      [] contentType = "image/jpeg" -> <<".", "j", "p", "g">>
      [] contentType = "image/gif" -> <<".", "g", "i", "f">>
      [] contentType = "image/bmp" -> <<".", "b", "m", "p">>
      [] contentType = "image/webp" -> <<".", "w", "e", "b", "p">>
      [] OTHER -> Null

\* const contentType = image.contentType || 'image/png';
\* const imgExt = extMap[contentType] || '.png';
imgExt(imageContentType) ==
    LET contentType ==
            IF imageContentType = NoContentType THEN "image/png" ELSE imageContentType
    IN IF extMap(contentType) # Null THEN extMap(contentType) ELSE <<".", "p", "n", "g">>

\* sanitizeFileName of converter.ts, step by step
IsDangerous(c) == c \in {"<", ">", ":", "\"", "/", "\\", "|", "?", "*"}

IsControl(c) == c \in {"\t", "\n", "\r"}

\* .replace(/\.{2,}/g, '_'): every run of two or more dots becomes one '_'
RECURSIVE DotRun(_)
DotRun(s) == IF s # <<>> /\ Head(s) = "." THEN 1 + DotRun(Tail(s)) ELSE 0

RECURSIVE ReplaceDotRuns(_)
ReplaceDotRuns(s) ==
    IF s = <<>> THEN <<>>
    ELSE IF DotRun(s) >= 2
         THEN <<"_">> \o ReplaceDotRuns(SubSeq(s, DotRun(s) + 1, Len(s)))
         ELSE <<Head(s)>> \o ReplaceDotRuns(Tail(s))

\* .replace(/^\.+/, '_')
ReplaceLeadingDots(s) ==
    IF DotRun(s) >= 1 THEN <<"_">> \o SubSeq(s, DotRun(s) + 1, Len(s)) ELSE s

\* .replace(/[\s.]+$/, '_')
RECURSIVE StripTrailingSpaceDots(_)
StripTrailingSpaceDots(s) ==
    IF s # <<>> /\ (IsSpace(s[Len(s)]) \/ s[Len(s)] = ".")
    THEN StripTrailingSpaceDots(SubSeq(s, 1, Len(s) - 1)) ELSE s

ReplaceTrailingSpaceDots(s) ==
    IF StripTrailingSpaceDots(s) # s THEN StripTrailingSpaceDots(s) \o <<"_">> ELSE s

SliceLimit == 200

\* .slice(0, 200)
Slice(s, n) == SubSeq(s, 1, IF Len(s) < n THEN Len(s) ELSE n)

ToLower(c) ==
    CASE c = "A" -> "a" [] c = "C" -> "c" [] c = "L" -> "l" [] c = "M" -> "m"
      [] c = "N" -> "n" [] c = "O" -> "o" [] c = "P" -> "p" [] c = "R" -> "r"
      [] c = "T" -> "t" [] c = "U" -> "u" [] c = "X" -> "x" [] OTHER -> c

\* /^(con|prn|aux|nul|com[1-9]|lpt[1-9])$/i
WindowsReserved(s) ==
    LET l == AsSeq([k \in 1..Len(s) |-> ToLower(s[k])])
    IN \/ l \in {<<"c", "o", "n">>, <<"p", "r", "n">>, <<"a", "u", "x">>, <<"n", "u", "l">>}
       \/ /\ Len(l) = 4
          /\ SubSeq(l, 1, 3) \in {<<"c", "o", "m">>, <<"l", "p", "t">>}
          /\ IsDigit(l[4]) /\ l[4] # "0"

sanitizeFileName(name) ==
    LET noDanger == AsSeq([k \in 1..Len(name) |-> IF IsDangerous(name[k]) THEN "_" ELSE name[k]])
        noControl == AsSeq([k \in 1..Len(name) |->
                        IF IsControl(noDanger[k]) THEN "_" ELSE noDanger[k]])
        sliced == Slice(ReplaceTrailingSpaceDots(ReplaceLeadingDots(
                      ReplaceDotRuns(noControl))), SliceLimit)
        result == IF WindowsReserved(sliced) THEN <<"_">> \o sliced ELSE sliced
    IN IF result = <<>> THEN <<"_">> ELSE result

ImageInfix == <<"-", "i", "m", "a", "g", "e", "-">>

\* (mutant) the name built from the base name as given
newNameFromRawBaseName(baseName, imageIndex, contentType) ==
    baseName \o ImageInfix
    \o PadStart(ToDecimal(imageIndex), 3, "0") \o imgExt(contentType)

\* `${safeName}-image-${String(imageIndex).padStart(3, '0')}${imgExt}`
newName(baseName, imageIndex, contentType) ==
    sanitizeFileName(baseName) \o ImageInfix
    \o PadStart(ToDecimal(imageIndex), 3, "0") \o imgExt(contentType)

\* the extMap of the standalone core: three entries
coreExtMap(contentType) ==
    CASE contentType = "image/png" -> <<".", "p", "n", "g">>
      [] contentType = "image/jpeg" -> <<".", "j", "p", "g">>
      [] contentType = "image/gif" -> <<".", "g", "i", "f">>
      [] OTHER -> Null

\* the core's const imgExt = extMap[contentType] || '.png'
coreImgExt(imageContentType) ==
    LET contentType ==
            IF imageContentType = NoContentType THEN "image/png" ELSE imageContentType
    IN IF coreExtMap(contentType) # Null THEN coreExtMap(contentType)
       ELSE <<".", "p", "n", "g">>

\* the core's `${baseName}-image-${String(imageIndex).padStart(3, '0')}${imgExt}`
coreNewName(baseName, imageIndex, contentType) ==
    baseName \o ImageInfix
    \o PadStart(ToDecimal(imageIndex), 3, "0") \o coreImgExt(contentType)

\* s.split('/')
RECURSIVE SplitSlash(_, _)
SplitSlash(s, cur) ==
    IF s = <<>> THEN <<cur>>
    ELSE IF Head(s) = "/" THEN <<cur>> \o SplitSlash(Tail(s), <<>>)
    ELSE SplitSlash(Tail(s), Append(cur, Head(s)))

\* path.normalize on a list of segments: '' and '.' drop, '..' pops
RECURSIVE NormalizeSegments(_, _)
NormalizeSegments(segs, acc) ==
    IF segs = <<>> THEN acc
    ELSE IF Head(segs) \in {<<>>, <<".">>} THEN NormalizeSegments(Tail(segs), acc)
    ELSE IF Head(segs) = <<".", ".">>
         THEN NormalizeSegments(Tail(segs),
                                IF acc = <<>> THEN acc ELSE SubSeq(acc, 1, Len(acc) - 1))
    ELSE NormalizeSegments(Tail(segs), Append(acc, Head(segs)))

\* path.join(imagesDir, newName): an absolute path as its list of segments
pathJoin(dir, name) == NormalizeSegments(SplitSlash(dir \o <<"/">> \o name, <<>>), <<>>)

ImagesPrefix == <<"i", "m", "a", "g", "e", "s", "/">>

\* `Failed to extract image ${imageIndex}: ${err.message}`
FailedPrefix ==
    <<"F", "a", "i", "l", "e", "d", " ", "t", "o", " ", "e", "x", "t", "r", "a", "c", "t",
      " ", "i", "m", "a", "g", "e", " ">>

extractWarning(imageIndex, message) ==
    FailedPrefix \o ToDecimal(imageIndex) \o <<":", " ">> \o message

\* -------------------------------------------------------------- documents
\* The HTML the provider produces, as the tree the parser builds from it.
\* An <img> of the input carries no src yet: the image callback supplies it.
P(kids) == Elem("p", <<>>, kids)

Img == Elem("img", <<>>, <<>>)

Td(tag, attrs, kids) == Elem(tag, attrs, kids)

Table(rows) == Elem("table", <<>>, <<Elem("tbody", <<>>, rows)>>)

Tr(cells) == Elem("tr", <<>>, cells)

\* rows whose cells hold plain text of growing length ("a"), or a paragraph
\* with a pipe in it ("pipe")
ShapeCell(style, c) ==
    IF style = "a" THEN Td("td", <<>>, <<TextNode(Repeat("a", 2 * c))>>)
    ELSE Td("th", <<>>, <<P(<<TextNode(<<"b", "|", "c">>)>>)>>)

ShapeRows ==
    {Tr(<<>>)} \cup
    {Tr(AsSeq([c \in 1..n |-> ShapeCell(style, c)])) : n \in 1..MaxCols, style \in {"a", "pipe"}}

RECURSIVE SeqsUpTo(_, _)
SeqsUpTo(S, n) ==
    IF n = 0 THEN {<<>>}
    ELSE SeqsUpTo(S, n - 1) \cup
         {Append(q, x) : q \in {r \in SeqsUpTo(S, n - 1) : Len(r) = n - 1}, x \in S}

ShapeTables == {Table(rows) : rows \in SeqsUpTo(ShapeRows, MaxRows)}

SimpleNested == Table(<<Tr(<<Td("td", <<>>, <<TextNode(<<"n">>)>>)>>)>>)

ImageNested == Table(<<Tr(<<Td("td", <<>>, <<P(<<Img>>)>>)>>)>>)

CellContents ==
    { <<>>,
      <<TextNode(<<"a">>)>>,
      <<P(<<TextNode(<<"a", "|">>)>>), P(<<TextNode(<<"b">>)>>)>>,
      <<TextNode(<<"x">>), Elem("br", <<>>, <<>>), TextNode(<<"y">>)>>,
      <<Elem("strong", <<>>, <<TextNode(<<"a", "*", "|">>)>>)>>,
      <<Elem("sup", <<>>, <<TextNode(<<"\\", "|">>)>>)>>,
      <<TextNode(<<"\\", "|", "|">>)>>,
      <<TextNode(<<"a", " ", "\n", " ", "b">>)>>,
      <<TextNode(<<"x", "&", "\"", "<", "y">>)>>,
      <<P(<<Img>>)>>,
      <<Elem("ul", <<>>, <<Elem("li", <<>>, <<TextNode(<<"i">>)>>)>>)>>,
      <<P(<<Elem("strong", <<>>, <<Elem("ol", <<>>, <<>>)>>)>>)>>,
      <<SimpleNested>>,
      <<P(<<TextNode(<<"t">>)>>), ImageNested>> }

SpanValues ==
    { <<>>, <<"0">>, <<"1">>, <<"2">>, <<"1", "0">>, <<"0", "2">>, <<" ", "3">>,
      <<"+", "2">>, <<"-", "2">>, <<"a", "b", "c">>, <<"2", "x">>, <<"1", ".", "9">>,
      <<"x", "2">> }

SpanAttrs ==
    {<<Attr(n, v)>> : n \in {"colspan", "rowspan"}, v \in SpanValues}
    \cup {<<Attr("colspan", <<"1">>), Attr("rowspan", <<"3">>)>>}

PlainCell == Td("td", <<>>, <<TextNode(<<"z">>)>>)

FeatureTables ==
    {Table(<<Tr(<<Td(tag, <<>>, kids), PlainCell>>)>>) :
        tag \in {"td", "th"}, kids \in CellContents}
    \cup {Table(<<Tr(<<PlainCell>>), Tr(<<PlainCell, Td(tag, attrs, <<TextNode(<<"s">>)>>)>>)>>) :
        tag \in {"td", "th"}, attrs \in SpanAttrs}

AllTables == ShapeTables \cup FeatureTables

Para(c) == P(<<TextNode(<<c>>)>>)

PairPool ==
    { Table(<<Tr(<<Td("td", <<>>, <<P(<<Img>>)>>)>>)>>),
      Table(<<Tr(<<Td("td", <<Attr("rowspan", <<"2">>)>>,
                      <<TextNode(<<"r", "*", "&", "<", "_">>)>>)>>)>>),
      Table(<<Tr(<<Td("td", <<>>, <<TextNode(<<"a">>)>>),
                   Td("td", <<>>, <<TextNode(<<"b", "|", "c">>)>>)>>)>>),
      Table(<<Tr(<<Td("td", <<>>, <<SimpleNested>>)>>)>>) }

TableDocs ==
    {<<t>> : t \in AllTables}
    \cup {<<Para("h"), t, Para("f")>> : t \in FeatureTables \cup PairPool}
    \cup {<<t1, t2>> : t1 \in PairPool, t2 \in PairPool}
    \cup {<<t1, Para("m"), t2>> : t1 \in PairPool, t2 \in PairPool}

\* the number of <img> elements of a list of nodes
RECURSIVE CountImages(_)
CountImages(nodes) ==
    IF nodes = <<>> THEN 0
    ELSE (IF Head(nodes).tag = "img" THEN 1 ELSE 0)
         + CountImages(Head(nodes).kids) + CountImages(Tail(nodes))

\* documents of n images, each in its own paragraph; the last one possibly
\* inside a table cell
ImageDocs(n) ==
    {AsSeq([k \in 1..n |-> P(<<Img>>)])}
    \cup (IF n = 0 THEN {}
          ELSE {AsSeq([k \in 1..n |->
                   IF k < n THEN P(<<Img>>)
                   ELSE Table(<<Tr(<<Td("td", <<>>, <<P(<<Img>>)>>)>>)>>)])})

ContentTypes ==
    {"image/png", "image/jpeg", "image/gif", "image/bmp", "image/webp",
     "image/tiff", NoContentType}

BaseNames ==
    { <<"d", "o", "c">>, <<"a", ":", "b">>, <<".", ".", "\\", "x">>, <<"C", "o", "n">>,
      <<"r", ".", " ">>, <<"x", "|", "y">>, <<".", "h">>, <<"l", "p", "t", "1">> }

DefaultBaseName == <<"d", "o", "c">>

\* the inputs of one conversion: the document, the content types of its
\* images in document order, the base name, and whether the provider awaits
\* each image callback before it invokes the next
Inputs ==
    {[blocks |-> b, images |-> AsSeq([k \in 1..CountImages(b) |-> "image/png"]),
      baseName |-> DefaultBaseName, series |-> TRUE] : b \in TableDocs}
    \cup UNION {{[blocks |-> b,
                  images |-> AsSeq([k \in 1..n |->
                                      IF k = n THEN "image/jpeg" ELSE "image/png"]),
                  baseName |-> DefaultBaseName, series |-> sr] :
                    b \in ImageDocs(n), sr \in BOOLEAN} : n \in 0..MaxImages}
    \cup {[blocks |-> <<P(<<Img>>)>>, images |-> <<ct>>, baseName |-> bn, series |-> TRUE] :
             ct \in ContentTypes, bn \in BaseNames}

ImagesDir == <<"/", "o", "u", "t", "/", "i", "m", "a", "g", "e", "s">>

ReadError == <<"r", "e", "a", "d">>

WriteError == <<"E", "N", "O", "S", "P", "C">>

\* the img elements get, in document order, the src the callbacks returned
RECURSIVE FillSrc(_, _)
FillSrc(nodes, srcs) ==
    IF nodes = <<>> THEN <<>>
    ELSE LET n == Head(nodes)
             own == IF n.tag = "img" THEN 1 ELSE 0
             inside == CountImages(n.kids)
             filled ==
                 [n EXCEPT !.attrs = IF own = 1 THEN <<Attr("src", srcs[1])>> ELSE @,
                           !.kids = FillSrc(@, SubSeq(srcs, own + 1, own + inside))]
         IN <<filled>> \o FillSrc(Tail(nodes), SubSeq(srcs, own + inside + 1, Len(srcs)))

\* ------------------------------------------------------------------ state
VARIABLES
    docx,          \* the input of the conversion (never changes)
    pc,            \* "converting" while the provider runs, then "done"
    imageIndex,    \* let imageIndex
    warnings,      \* const warnings
    cb,            \* per image: the state of its convertImage callback
    files,         \* the paths written by fs.writeFileSync
    html,          \* result.value
    preprocessed,  \* the live document preprocessComplexTables leaves
    result,        \* the returned ConversionResult
    calls,         \* two calls of convertDocxWithImages in flight: the locals of each
    fileUris,      \* the documents the user selected for a batch
    fileIndex,     \* the loop variable i of the batch loop
    step,          \* where the batch command stands
    isCancellationRequested, \* token.isCancellationRequested
    results,       \* const results: BatchResult[]
    mdFiles,       \* the Markdown files written, path to content
    imageFiles,    \* the image files the batch wrote, path to content
    shown,         \* what showBatchSummary showed
    inputName,     \* the argument of a call of the shared sanitizeFileName
    safeName,      \* what that call returned
    pasteStep,     \* "selected" before the call, "named" after it
    textDocuments, \* vscode.workspace.textDocuments: the open Markdown documents
    docVersion,    \* per document, the version of its text
    activeTab,     \* the active tab: an editor or a preview of a document, or another
    documentUri,   \* this.documentUri of the outline provider
    items,         \* this.items
    parseGeneration, \* this.parseGeneration
    parses,        \* the calls of parseDocument by generation: locals and position
    closeTimers,   \* the setTimeout callbacks of onDidCloseTextDocument not yet run
    refreshTimeout, \* this.refreshTimeout: whether a debounced refresh is pending
    opening,       \* the calls of refreshForTabChange awaiting openTextDocument
    fired          \* whether the last step called _onDidChangeTreeData.fire()

conversionVars == <<docx, pc, imageIndex, warnings, cb, files, html, preprocessed, result>>

batchVars ==
    <<fileUris, fileIndex, step, isCancellationRequested, results, mdFiles, imageFiles, shown>>

sanitizeVars == <<inputName, safeName, pasteStep>>

outlineVars ==
    <<textDocuments, docVersion, activeTab, documentUri, items, parseGeneration, parses,
      closeTimers, refreshTimeout, opening, fired>>

vars == <<conversionVars, calls, batchVars, sanitizeVars, outlineVars>>

\* the variables of the other commands while one command is modelled
NoConversion ==
    /\ docx = [blocks |-> <<>>, images |-> <<>>, baseName |-> <<>>, series |-> TRUE]
    /\ pc = "idle"
    /\ imageIndex = 0
    /\ warnings = <<>>
    /\ cb = <<>>
    /\ files = {}
    /\ html = <<>>
    /\ preprocessed = <<>>
    /\ result = [markdown |-> <<>>, imageCount |-> -1, warnings |-> <<>>]

NoCalls == calls = <<>>

NoBatch ==
    /\ fileUris = <<>>
    /\ fileIndex = 0
    /\ step = "idle"
    /\ isCancellationRequested = FALSE
    /\ results = <<>>
    /\ mdFiles = {}
    /\ imageFiles = {}
    /\ shown = <<>>

NoSanitize == inputName = <<>> /\ safeName = <<>> /\ pasteStep = "idle"

NoDocument == "undefined"

NoOutline ==
    /\ textDocuments = {}
    /\ docVersion = <<>>
    /\ activeTab = [kind |-> "other", uri |-> NoDocument]
    /\ documentUri = NoDocument
    /\ items = <<>>
    /\ parseGeneration = 0
    /\ parses = <<>>
    /\ closeTimers = {}
    /\ refreshTimeout = FALSE
    /\ opening = {}
    /\ fired = FALSE

NoResult == [markdown |-> <<>>, imageCount |-> -1, warnings |-> <<>>]

IdleCallback == [pc |-> "idle", src |-> <<>>, used |-> -1, failed |-> "none", path |-> <<>>]

Init ==
    /\ docx \in Inputs
    /\ pc = "converting"
    /\ imageIndex = 0
    /\ warnings = <<>>
    /\ cb = AsSeq([k \in 1..Len(docx.images) |-> IdleCallback])
    /\ files = {}
    /\ html = <<>>
    /\ preprocessed = <<>>
    /\ result = NoResult
    /\ NoCalls /\ NoBatch /\ NoSanitize /\ NoOutline

\* the provider reaches image i of the document and invokes the callback,
\* which starts image.read()
Invoke(i) ==
    /\ pc = "converting"
    /\ cb[i].pc = "idle"
    /\ \A j \in 1..(i - 1) : cb[j].pc # "idle"
    /\ docx.series => \A j \in 1..(i - 1) : cb[j].pc = "returned"
    /\ cb' = [cb EXCEPT ![i].pc = "reading"]
    /\ UNCHANGED <<docx, pc, imageIndex, warnings, files, html, preprocessed, result>>
    /\ UNCHANGED <<calls, batchVars, sanitizeVars, outlineVars>>

\* image.read() resolves and fs.writeFileSync succeeds
ReadThenWrite(i) ==
    /\ pc = "converting"
    /\ cb[i].pc = "reading"
    /\ LET name == newName(docx.baseName, imageIndex + 1, docx.images[i])
           imgPath == pathJoin(ImagesDir, name)
       IN /\ imageIndex' = imageIndex + 1
          /\ files' = files \cup {imgPath}
          /\ cb' = [cb EXCEPT ![i] = [pc |-> "returned", src |-> ImagesPrefix \o name,
                                      used |-> imageIndex + 1, failed |-> "none",
                                      path |-> imgPath]]
    /\ UNCHANGED <<docx, pc, warnings, html, preprocessed, result>>
    /\ UNCHANGED <<calls, batchVars, sanitizeVars, outlineVars>>

\* (mutant) the callback with imageIndex++ moved behind the write: a write
\* that throws leaves imageIndex as it was
WriteFailsBeforeIncrement(i) ==
    /\ pc = "converting"
    /\ cb[i].pc = "reading"
    /\ warnings' = Append(warnings, extractWarning(imageIndex, WriteError))
    /\ cb' = [cb EXCEPT ![i] = [pc |-> "returned", src |-> <<>>,
                                used |-> imageIndex, failed |-> "write",
                                path |-> <<>>]]
    /\ UNCHANGED <<docx, pc, imageIndex, files, html, preprocessed, result>>
    /\ UNCHANGED <<calls, batchVars, sanitizeVars, outlineVars>>

\* image.read() resolves and fs.writeFileSync throws
ReadThenWriteFails(i) ==
    /\ pc = "converting"
    /\ cb[i].pc = "reading"
    /\ imageIndex' = imageIndex + 1
    /\ warnings' = Append(warnings, extractWarning(imageIndex + 1, WriteError))
    /\ cb' = [cb EXCEPT ![i] = [pc |-> "returned", src |-> <<>>,
                                used |-> imageIndex + 1, failed |-> "write",
                                path |-> <<>>]]
    /\ UNCHANGED <<docx, pc, files, html, preprocessed, result>>
    /\ UNCHANGED <<calls, batchVars, sanitizeVars, outlineVars>>

\* image.read() rejects
ReadFails(i) ==
    /\ pc = "converting"
    /\ cb[i].pc = "reading"
    /\ warnings' = Append(warnings, extractWarning(imageIndex, ReadError))
    /\ cb' = [cb EXCEPT ![i] = [pc |-> "returned", src |-> <<>>,
                                used |-> imageIndex, failed |-> "read",
                                path |-> <<>>]]
    /\ UNCHANGED <<docx, pc, imageIndex, files, html, preprocessed, result>>
    /\ UNCHANGED <<calls, batchVars, sanitizeVars, outlineVars>>

ProviderMessages == {<<>>, <<<<"w", "a", "r", "n", "i", "n", "g", ":", " ", "m">>>>}

\* the live document as the list of trees doc.body.innerHTML serializes
bodyInnerHTML(store) == ToTree(store, BodyId).kids

\* the provider resolves; the rest of convertDocxWithImages runs to its return
Finish ==
    /\ pc = "converting"
    /\ \A i \in 1..Len(cb) : cb[i].pc = "returned"
    /\ \E messages \in ProviderMessages :
       \E value \in {FillSrc(docx.blocks, AsSeq([k \in 1..Len(cb) |-> cb[k].src]))} :
       \E store \in {preprocessComplexTables(value)} :
       \E preprocessedHtml \in {AsSeq([k \in 1..Len(bodyInnerHTML(store)) |->
                                    Reparse(bodyInnerHTML(store)[k])])} :
         /\ html' = value
         /\ preprocessed' = store
         /\ warnings' = warnings \o messages
         /\ result' = [markdown |-> turndown(preprocessedHtml),
                       imageCount |-> imageIndex,
                       warnings |-> warnings \o messages]
    /\ pc' = "done"
    /\ UNCHANGED <<docx, imageIndex, cb, files>>
    /\ UNCHANGED <<calls, batchVars, sanitizeVars, outlineVars>>

\* the callback of the standalone core for image i, its read and its write
\* going as those of cb[i] went: the src it returns and the path it writes
coreCallback(i) ==
    LET name == coreNewName(docx.baseName, cb[i].used, docx.images[i])
    IN IF cb[i].failed = "none"
       THEN [src |-> ImagesPrefix \o name, path |-> pathJoin(ImagesDir, name)]
       ELSE [src |-> <<>>, path |-> <<>>]

\* what convertDocxToMarkdown of the standalone core returns for docx when
\* the provider invokes its callbacks as it invoked cb and reports the same
\* messages: the same counter, the same warnings, the core's names
convertDocxToMarkdown ==
    LET value == FillSrc(docx.blocks, AsSeq([k \in 1..Len(cb) |-> coreCallback(k).src]))
        store == preprocessComplexTables(value)
        preprocessedHtml == AsSeq([k \in 1..Len(bodyInnerHTML(store)) |->
                                     Reparse(bodyInnerHTML(store)[k])])
    IN [markdown |-> turndown(preprocessedHtml),
        imageCount |-> imageIndex,
        warnings |-> warnings]

Next ==
    \/ \E i \in 1..Len(cb) : Invoke(i)
    \/ \E i \in 1..Len(cb) : ReadThenWrite(i)
    \/ \E i \in 1..Len(cb) : ReadThenWriteFails(i)
    \/ \E i \in 1..Len(cb) : ReadFails(i)
    \/ Finish

Spec == Init /\ [][Next]_vars

\* ------------------------------------------- two conversions in flight
\* convertDocxWithImages is exported: a second call may start while the
\* first awaits its provider.  Each call has the locals the function body
\* declares; events is the history of the call's own callbacks (which image,
\* how it ended), kept for the statement of properties only.
Outcomes == {"none", "write", "read"}

FreshCall(input) ==
    [docx |-> input, pc |-> "converting", imageIndex |-> 0, warnings |-> <<>>,
     cb |-> AsSeq([k \in 1..Len(input.images) |-> IdleCallback]),
     result |-> NoResult, events |-> <<>>]

\* (mutant) imageIndex declared at module level: one counter for all calls
moduleLevelIndex(cs, c) ==
    CHOOSE n \in {cs[k].imageIndex : k \in 1..Len(cs)} :
        \A k \in 1..Len(cs) : cs[k].imageIndex <= n

\* let imageIndex = 0 inside the function body: the counter of call c
localIndex(cs, c) == cs[c].imageIndex

\* the body of the convertImage callback of call c for image k, from the
\* point where image.read() settles, ending in the given outcome
callbackSettles(cs, c, k, outcome) ==
    LET call == cs[c]
        logged == [call EXCEPT !.events = Append(@, <<k, outcome>>)]
    IN IF outcome = "read"
       THEN [logged EXCEPT
               !.warnings = Append(@, extractWarning(localIndex(cs, c), ReadError)),
               !.cb[k] = [pc |-> "returned", src |-> <<>>, used |-> localIndex(cs, c),
                          failed |-> "read", path |-> <<>>]]
       ELSE LET index == localIndex(cs, c) + 1
                name == newName(call.docx.baseName, index, call.docx.images[k])
            IN IF outcome = "write"
               THEN [logged EXCEPT
                       !.imageIndex = index,
                       !.warnings = Append(@, extractWarning(index, WriteError)),
                       !.cb[k] = [pc |-> "returned", src |-> <<>>, used |-> index,
                                  failed |-> "write", path |-> <<>>]]
               ELSE [logged EXCEPT
                       !.imageIndex = index,
                       !.cb[k] = [pc |-> "returned", src |-> ImagesPrefix \o name,
                                  used |-> index, failed |-> "none",
                                  path |-> pathJoin(ImagesDir, name)]]

\* lines 177-215 for the HTML of the provider with the srcs the callbacks returned
markdownOf(blocks, srcs) ==
    LET store == preprocessComplexTables(FillSrc(blocks, srcs))
    IN turndown(AsSeq([k \in 1..Len(bodyInnerHTML(store)) |->
                          Reparse(bodyInnerHTML(store)[k])]))

\* the documents of the two calls: one paragraph per image
CallInputs ==
    {[blocks |-> AsSeq([k \in 1..n |-> P(<<Img>>)]),
      images |-> AsSeq([k \in 1..n |-> IF k = n THEN "image/jpeg" ELSE "image/png"]),
      baseName |-> DefaultBaseName, series |-> TRUE] : n \in 1..MaxCallImages}

InitCalls ==
    /\ calls \in {<<FreshCall(a), FreshCall(b)>> : a \in CallInputs, b \in CallInputs}
    /\ NoConversion /\ NoBatch /\ NoSanitize /\ NoOutline

\* the provider of call c invokes the callback for image k
CallInvoke(c, k) ==
    /\ calls[c].pc = "converting"
    /\ calls[c].cb[k].pc = "idle"
    /\ \A j \in 1..(k - 1) : calls[c].cb[j].pc # "idle"
    /\ calls[c].docx.series => \A j \in 1..(k - 1) : calls[c].cb[j].pc = "returned"
    /\ calls' = [calls EXCEPT ![c].cb[k].pc = "reading"]
    /\ UNCHANGED <<conversionVars, batchVars, sanitizeVars, outlineVars>>

\* image.read() of image k of call c settles and the callback runs to its return
CallCallback(c, k) ==
    /\ calls[c].pc = "converting"
    /\ calls[c].cb[k].pc = "reading"
    /\ \E outcome \in Outcomes :
         calls' = [calls EXCEPT ![c] = callbackSettles(calls, c, k, outcome)]
    /\ UNCHANGED <<conversionVars, batchVars, sanitizeVars, outlineVars>>

\* the provider of call c resolves and the call runs to its return
CallReturns(c) ==
    /\ calls[c].pc = "converting"
    /\ \A k \in 1..Len(calls[c].cb) : calls[c].cb[k].pc = "returned"
    /\ \E messages \in ProviderMessages :
       \E markdown \in {markdownOf(calls[c].docx.blocks,
                                   AsSeq([k \in 1..Len(calls[c].cb) |-> calls[c].cb[k].src]))} :
         calls' = [calls EXCEPT
                     ![c].pc = "done",
                     ![c].warnings = @ \o messages,
                     ![c].result = [markdown |-> markdown,
                                    imageCount |-> localIndex(calls, c),
                                    warnings |-> calls[c].warnings \o messages]]
    /\ UNCHANGED <<conversionVars, batchVars, sanitizeVars, outlineVars>>

NextCalls ==
    \/ \E c \in 1..2 : \E k \in 1..Len(calls[c].cb) : CallInvoke(c, k)
    \/ \E c \in 1..2 : \E k \in 1..Len(calls[c].cb) : CallCallback(c, k)
    \/ \E c \in 1..2 : CallReturns(c)

SpecCalls == InitCalls /\ [][NextCalls]_vars

\* ---------------------------------------------------------- Post-processor
\* the least element of a non-empty set of numbers
Least(S) == CHOOSE n \in S : \A m \in S : n <= m

\* where a match of /!\[[^\]]*\]\(\s*\)/ that starts at position p ends, 0
\* when none starts there
EmptyImageEnd(s, p) ==
    IF p + 1 <= Len(s) /\ s[p] = "!" /\ s[p + 1] = "["
    THEN LET closers == {j \in (p + 2)..Len(s) : s[j] = "]"}
         IN IF closers = {} THEN 0
            ELSE IF Least(closers) + 1 <= Len(s) /\ s[Least(closers) + 1] = "("
            THEN LET rest == {k \in (Least(closers) + 2)..Len(s) : ~IsSpace(s[k])}
                 IN IF rest # {} /\ s[Least(rest)] = ")" THEN Least(rest) ELSE 0
            ELSE 0
    ELSE 0

\* result.replace(/!\[[^\]]*\]\(\s*\)/g, ''): one pass from position p on
RECURSIVE RemoveEmptyImages(_, _)
RemoveEmptyImages(s, p) ==
    IF p > Len(s) THEN <<>>
    ELSE IF EmptyImageEnd(s, p) > 0 THEN RemoveEmptyImages(s, EmptyImageEnd(s, p) + 1)
    ELSE <<s[p]>> \o RemoveEmptyImages(s, p + 1)

\* result.replace(/(\d+)\\\./g, '$1.')
UnescapeNumberDots(s) ==
    Concat(AsSeq([k \in 1..Len(s) |->
        IF /\ s[k] = "\\"
           /\ k > 1 /\ IsDigit(s[k - 1])
           /\ k < Len(s) /\ s[k + 1] = "."
        THEN <<>> ELSE <<s[k]>>]))

\* result.replace(/\n{3,}/g, '\n\n')
CollapseNewlines(s) ==
    Concat(AsSeq([k \in 1..Len(s) |->
        IF k >= 3 /\ s[k] = "\n" /\ s[k - 1] = "\n" /\ s[k - 2] = "\n"
        THEN <<>> ELSE <<s[k]>>]))

\* s.split('\n')
RECURSIVE split(_, _)
split(s, cur) ==
    IF s = <<>> THEN <<cur>>
    ELSE IF Head(s) = "\n" THEN <<cur>> \o split(Tail(s), <<>>)
    ELSE split(Tail(s), Append(cur, Head(s)))

\* result.split('\n').map(line => line.trimEnd()).join('\n')
TrimLineEnds(s) ==
    JoinWith(AsSeq([k \in 1..Len(split(s, <<>>)) |-> TrimEnd(split(s, <<>>)[k])]), <<"\n">>)

\* (mutant) a heading line that no blank line follows
headingWithoutBlankLine(title) == <<"#", " ">> \o title \o <<"\n">>

\* the template literal that result starts from: # ${title}\n\n
heading(title) == <<"#", " ">> \o title \o <<"\n", "\n">>

cleanupMarkdown(markdown, title) ==
    LET headed == heading(title) \o markdown
        trimmed == TrimLineEnds(CollapseNewlines(UnescapeNumberDots(
                       RemoveEmptyImages(headed, 1))))
    IN IF trimmed = <<>> \/ trimmed[Len(trimmed)] # "\n"
       THEN trimmed \o <<"\n">> ELSE trimmed

\* ------------------------------------------------------------ batch command
\* A selected document: its base name without extension (wordFileName) and
\* what convertDocxWithImages does with it: raise, or return a result.
Converts(markdown, imageCount, docWarnings) ==
    [raises |-> FALSE, markdown |-> markdown, imageCount |-> imageCount,
     warnings |-> docWarnings]

Raises(message) == [raises |-> TRUE, message |-> message]

\* results.push({fileName, success: true, imageCount})
succeeded(doc) ==
    [fileName |-> doc.wordFileName, success |-> TRUE,
     imageCount |-> doc.conversion.imageCount]

\* results.push({fileName, success: false, error})
failedWith(doc, message) ==
    [fileName |-> doc.wordFileName, success |-> FALSE, error |-> message]

\* the image files that the conversion of doc writes to imagesDir: one for
\* each ordinal that no warning names, holding that image of the document
imagesWritten(doc) ==
    {[path |-> pathJoin(ImagesDir, newName(doc.wordFileName, j, "image/png")),
      content |-> <<doc, j>>] :
        j \in {j \in 1..doc.conversion.imageCount :
                  \A w \in 1..Len(doc.conversion.warnings) :
                      doc.conversion.warnings[w] # extractWarning(j, WriteError)}}

\* fs.writeFileSync for each file of new: a file of the same path is replaced
withFiles(old, new) == {f \in old : \A g \in new : g.path # f.path} \cup new

\* path.join(outputDir, wordFileName + '.md'), outputDir left out
mdFilePath(wordFileName) == wordFileName \o <<".", "m", "d">>

\* results.filter(r => r.success), results.filter(r => !r.success)
succeededOf(rs) == SelectSeq(rs, LAMBDA r : r.success)

failedOf(rs) == SelectSeq(rs, LAMBDA r : ~r.success)

\* succeeded.reduce((sum, r) => sum + (r.imageCount || 0), 0)
RECURSIVE totalImages(_)
totalImages(rs) ==
    IF rs = <<>> THEN 0 ELSE Head(rs).imageCount + totalImages(Tail(rs))

\* the character U+2705 that the information message starts with
CheckMark == <<"U+2705">>

\* what showBatchSummary shows for the results: nothing, an information
\* message or a warning message
showBatchSummary(rs) ==
    IF Len(rs) = 0 THEN <<>>
    ELSE IF Len(failedOf(rs)) = 0
    THEN [kind |-> "information",
          message |->
              CheckMark \o <<" ", "C", "o", "n", "v", "e", "r", "t", "e", "d", " ">> \o ToDecimal(Len(succeededOf(rs))) \o <<" ", "f", "i", "l", "e">>
              \o (IF Len(succeededOf(rs)) > 1 THEN <<"s">> ELSE <<>>)
              \o <<",", " ", "e", "x", "t", "r", "a", "c", "t", "e", "d", " ">> \o ToDecimal(totalImages(succeededOf(rs))) \o <<" ", "i", "m", "a", "g", "e">>
              \o (IF totalImages(succeededOf(rs)) # 1 THEN <<"s">> ELSE <<>>)]
    ELSE [kind |-> "warning",
          message |->
              <<"C", "o", "n", "v", "e", "r", "t", "e", "d", " ">> \o ToDecimal(Len(succeededOf(rs))) \o <<"/">>
              \o ToDecimal(Len(rs)) \o <<" ", "f", "i", "l", "e", "s", ".", " ", "F", "a", "i", "l", "e", "d", ":", " ">>
              \o JoinWith(AsSeq([k \in 1..Len(failedOf(rs)) |-> failedOf(rs)[k].fileName]),
                          <<",", " ">>)]

\* the base names and the Markdown bodies that the documents of a batch of
\* one are drawn from
Titles ==
    { <<"R", "e", "p", "o", "r", "t">>,
      <<"T">>,
      <<"r", ".", " ">>,
      <<"n", "o", "t", "e", "s", " ">>,
      <<"v", "1", "\\", ".", "2">>,
      <<"!", "[", "a", "]", "(">>,
      <<"a", " ", "b">> }

Bodies ==
    { <<"h", "e", "l", "l", "o">>,
      <<>>,
      <<"!", "[", "]", "(", ")">>,
      <<"!", "[", "a", "l", "t", "]", "(", " ", " ", ")", "x">>,
      <<"!", "[", "a", "]", "!", "[", "b", "]", "(", ")", "(", ")">>,
      <<"a", "\n", " ", "\n", " ", "\n", "b">>,
      <<"a", " ", " ", "\n", " ", " ", "\n", " ", " ", "\n", "b">>,
      <<"1", "\\", ".", " ", "x">>,
      <<"x", "\n", "\n", "\n", "\n", "y">>,
      <<"a", "\n", "\n", "\n", "\n", "\n", "\n", "b">>,
      <<"t", " ", " ">>,
      <<"a", "\n", "\n">>,
      <<")">>,
      <<"!", "[", "a", "]", "(", "i", "m", "a", "g", "e", "s", "/", "d", "o", "c", "-", "i", "m", "a", "g", "e", "-", "0", "0", "1", ".", "p", "n", "g", ")">>,
      <<"-", " ", "i", "\n", "-", " ", "j">>,
      <<"x", "\n", "!", "[", "]", "(", ")", "\n", "\n", "!", "[", "]", "(", ")", "\n", "y">>,
      <<"!", "[", "a", "]", "(", " ", "\n", " ", ")">>,
      <<"9", "\\", ".", "\n", "\n", "\n">>,
      <<"v", " ", "1", "\\", ".", "2">>,
      <<"<", "t", "d", ">", "3", "\\", ".", "<", "/", "t", "d", ">", "\n", "\n", " ", " ", "2", "\\", ".", " ", "x">> }

\* four documents with different names: converted without warnings,
\* converted with a warning, not convertible, converted with one image
BatchDocs ==
    { [wordFileName |-> <<"R", "e", "p", "o", "r", "t">>, conversion |-> Converts(<<"h", "e", "l", "l", "o">>, 0, <<>>)],
      [wordFileName |-> <<"b">>,
       conversion |-> Converts(<<"x">>, 2, <<extractWarning(1, WriteError)>>)],
      [wordFileName |-> <<"c">>, conversion |-> Raises(<<"b", "a", "d">>)],
      [wordFileName |-> <<"d">>, conversion |-> Converts(<<"y">>, 1, <<>>)] }

\* the sequences of length n of documents with different names
RECURSIVE Batches(_)
Batches(n) ==
    IF n = 0 THEN {<<>>}
    ELSE {Append(b, d) : b \in Batches(n - 1),
                         d \in BatchDocs}

DistinctNames(b) ==
    \A m \in 1..Len(b) : \A n \in 1..Len(b) :
        m # n => b[m].wordFileName # b[n].wordFileName

Selections ==
    {b \in UNION {Batches(n) : n \in 0..MaxFiles} : DistinctNames(b)}
    \cup {<<[wordFileName |-> t, conversion |-> Converts(b, 0, <<>>)]>> :
             t \in Titles, b \in Bodies}

InitBatch ==
    /\ fileUris \in Selections
    /\ fileIndex = 0
    /\ step = "selected"
    /\ isCancellationRequested = FALSE
    /\ results = <<>>
    /\ mdFiles = {}
    /\ imageFiles = {}
    /\ shown = <<>>
    /\ NoConversion /\ NoCalls /\ NoSanitize /\ NoOutline

\* if (!fileUris || fileUris.length === 0) return;
NothingSelected ==
    /\ step = "selected"
    /\ Len(fileUris) = 0
    /\ step' = "returned"
    /\ UNCHANGED <<fileUris, fileIndex, isCancellationRequested, results, mdFiles,
                   imageFiles, shown>>
    /\ UNCHANGED <<conversionVars, calls, sanitizeVars, outlineVars>>

\* the output folder is chosen and withProgress starts the loop
LoopStarts ==
    /\ step = "selected"
    /\ Len(fileUris) > 0
    /\ step' = "loop"
    /\ UNCHANGED <<fileUris, fileIndex, isCancellationRequested, results, mdFiles,
                   imageFiles, shown>>
    /\ UNCHANGED <<conversionVars, calls, sanitizeVars, outlineVars>>

\* the user presses Cancel on the progress notification
CancellationRequested ==
    /\ step \in {"loop", "converting"}
    /\ ~isCancellationRequested
    /\ isCancellationRequested' = TRUE
    /\ UNCHANGED <<fileUris, fileIndex, step, results, mdFiles,
                   imageFiles, shown>>
    /\ UNCHANGED <<conversionVars, calls, sanitizeVars, outlineVars>>

\* i < total fails
LoopEnds ==
    /\ step = "loop"
    /\ ~(fileIndex < Len(fileUris))
    /\ step' = "summary"
    /\ UNCHANGED <<fileUris, fileIndex, isCancellationRequested, results, mdFiles,
                   imageFiles, shown>>
    /\ UNCHANGED <<conversionVars, calls, sanitizeVars, outlineVars>>

\* if (token.isCancellationRequested) break;
LoopBreaks ==
    /\ step = "loop"
    /\ fileIndex < Len(fileUris)
    /\ isCancellationRequested
    /\ step' = "summary"
    /\ UNCHANGED <<fileUris, fileIndex, isCancellationRequested, results, mdFiles,
                   imageFiles, shown>>
    /\ UNCHANGED <<conversionVars, calls, sanitizeVars, outlineVars>>

\* (mutant) the loop without the test of the token
ConversionStartsUnasked ==
    /\ step = "loop"
    /\ fileIndex < Len(fileUris)
    /\ step' = "converting"
    /\ UNCHANGED <<fileUris, fileIndex, isCancellationRequested, results, mdFiles,
                   imageFiles, shown>>
    /\ UNCHANGED <<conversionVars, calls, sanitizeVars, outlineVars>>

\* the loop body up to await convertDocxWithImages(...)
ConversionStarts ==
    /\ step = "loop"
    /\ fileIndex < Len(fileUris)
    /\ ~isCancellationRequested
    /\ step' = "converting"
    /\ UNCHANGED <<fileUris, fileIndex, isCancellationRequested, results, mdFiles,
                   imageFiles, shown>>
    /\ UNCHANGED <<conversionVars, calls, sanitizeVars, outlineVars>>

\* (mutant) the loop body without try/catch: the exception ends the loop
ConversionRaisesUncaught ==
    /\ step = "converting"
    /\ fileUris[fileIndex + 1].conversion.raises
    /\ step' = "summary"
    /\ UNCHANGED <<fileUris, fileIndex, isCancellationRequested, results, mdFiles,
                   imageFiles, shown>>
    /\ UNCHANGED <<conversionVars, calls, sanitizeVars, outlineVars>>

\* convertDocxWithImages raises: the catch block, then i++
ConversionRaises ==
    /\ step = "converting"
    /\ fileUris[fileIndex + 1].conversion.raises
    /\ results' = Append(results, failedWith(fileUris[fileIndex + 1],
                                             fileUris[fileIndex + 1].conversion.message))
    /\ fileIndex' = fileIndex + 1
    /\ step' = "loop"
    /\ UNCHANGED <<fileUris, isCancellationRequested, mdFiles, imageFiles, shown>>
    /\ UNCHANGED <<conversionVars, calls, sanitizeVars, outlineVars>>

\* convertDocxWithImages returns, cleanupMarkdown, fs.writeFileSync succeeds,
\* results.push, then i++
MarkdownWritten ==
    /\ step = "converting"
    /\ ~fileUris[fileIndex + 1].conversion.raises
    /\ \E doc \in {fileUris[fileIndex + 1]} :
       \E markdown \in {cleanupMarkdown(doc.conversion.markdown, doc.wordFileName)} :
         /\ mdFiles' = withFiles(mdFiles, {[path |-> mdFilePath(doc.wordFileName),
                                             content |-> markdown]})
         /\ imageFiles' = withFiles(imageFiles, imagesWritten(doc))
         /\ results' = Append(results, succeeded(doc))
    /\ fileIndex' = fileIndex + 1
    /\ step' = "loop"
    /\ UNCHANGED <<fileUris, isCancellationRequested, shown>>
    /\ UNCHANGED <<conversionVars, calls, sanitizeVars, outlineVars>>

\* convertDocxWithImages returns, fs.writeFileSync of the Markdown throws:
\* the catch block, then i++
WriteRaises ==
    /\ step = "converting"
    /\ ~fileUris[fileIndex + 1].conversion.raises
    /\ results' = Append(results, failedWith(fileUris[fileIndex + 1], WriteError))
    /\ fileIndex' = fileIndex + 1
    /\ step' = "loop"
    /\ imageFiles' = withFiles(imageFiles, imagesWritten(fileUris[fileIndex + 1]))
    /\ UNCHANGED <<fileUris, isCancellationRequested, mdFiles, shown>>
    /\ UNCHANGED <<conversionVars, calls, sanitizeVars, outlineVars>>

\* showBatchSummary(results, outputDir)
Summary ==
    /\ step = "summary"
    /\ shown' = showBatchSummary(results)
    /\ step' = "returned"
    /\ UNCHANGED <<fileUris, fileIndex, isCancellationRequested, results, mdFiles,
                   imageFiles>>
    /\ UNCHANGED <<conversionVars, calls, sanitizeVars, outlineVars>>

NextBatch ==
    \/ NothingSelected
    \/ LoopStarts
    \/ CancellationRequested
    \/ LoopEnds
    \/ LoopBreaks
    \/ ConversionStarts
    \/ ConversionRaises
    \/ MarkdownWritten
    \/ WriteRaises
    \/ Summary

SpecBatch == InitBatch /\ [][NextBatch]_vars

\* ------------------------------------------------------------------
\* sanitizeFileName of outline.ts, which the paste command applies to the
\* selected text (paster.ts)

\* stand-ins for characters that have no notation in a string: a high and a
\* low surrogate (the two halves of one character), NUL and DEL
HighSurrogate == "U+D83D"

LowSurrogate == "U+DE00"

\* the line separator U+2028: white space for \s, a line terminator for "."
LineSeparator == "U+2028"

\* code <= 0x1f || code === 0x7f
IsControlCode(c) == IsControl(c) \/ c \in {"U+0000", "U+001F", "U+007F"}

\* .replace(/\.{2,}/g, '_'), position by position: the first dot of a run of
\* two or more becomes '_', the other dots of the run disappear
ReplaceDotRunsAt(s) ==
    Concat(AsSeq([k \in 1..Len(s) |->
        IF s[k] # "." THEN <<s[k]>>
        ELSE IF k > 1 /\ s[k - 1] = "." THEN <<>>
        ELSE IF k < Len(s) /\ s[k + 1] = "." THEN <<"_">>
        ELSE <<".">>]))

\* (mutant) a leading dot left in place
KeepFirstDot(s) == s

\* .replace(/^\./, '_')
ReplaceFirstDot(s) ==
    IF s # <<>> /\ s[1] = "." THEN <<"_">> \o Tail(s) ELSE s

\* .replace(/[\s.]+$/, '')
RemoveTrailingSpaceDots(s) ==
    LET kept == {k \in 1..Len(s) :
                    ~(IsSpace(s[k]) \/ s[k] = LineSeparator \/ s[k] = ".")}
    IN IF kept = {} THEN <<>>
       ELSE SubSeq(s, 1, CHOOSE k \in kept : \A m \in kept : m <= k)

\* .replace(/[\uD800-\uDBFF]$/, '')
RemoveCutSurrogate(s) ==
    IF s # <<>> /\ s[Len(s)] = HighSurrogate THEN SubSeq(s, 1, Len(s) - 1) ELSE s

\* /^(con|prn|aux|nul|com[1-9]|lpt[1-9])(\..*)?$/i, where "." matches every
\* character but a line terminator
WINDOWS_RESERVED(s) ==
    \E n \in {3, 4} :
        /\ n <= Len(s)
        /\ WindowsReserved(SubSeq(s, 1, n))
        /\ \/ Len(s) = n
           \/ /\ s[n + 1] = "."
              /\ \A k \in (n + 2)..Len(s) : s[k] \notin {"\n", "\r", LineSeparator}

outlineSanitizeFileName(name) ==
    LET noDanger == AsSeq([k \in 1..Len(name) |->
                        IF IsDangerous(name[k]) THEN "_" ELSE name[k]])
        noControl == AsSeq([k \in 1..Len(name) |->
                        IF IsControlCode(noDanger[k]) THEN "_" ELSE noDanger[k]])
        sliced == RemoveCutSurrogate(Slice(RemoveTrailingSpaceDots(ReplaceFirstDot(
                      ReplaceDotRunsAt(noControl))), SliceLimit))
        prefixed == IF WINDOWS_RESERVED(sliced) THEN <<"_">> \o sliced ELSE sliced
    IN IF prefixed = <<>> THEN <<"_">> ELSE prefixed

\* const selectText = rawSelectText ? sanitizeFileName(rawSelectText) : '';
selectText(rawSelectText) ==
    IF rawSelectText # <<>> THEN outlineSanitizeFileName(rawSelectText) ELSE <<>>

\* every string of up to n characters of the set
RECURSIVE StringsUpTo(_, _)
StringsUpTo(chars, n) ==
    IF n = 0 THEN {<<>>}
    ELSE StringsUpTo(chars, n - 1)
         \cup {Append(s, c) : s \in StringsUpTo(chars, n - 1), c \in chars}

SelectionChars == {".", " ", "a", "/", "\t"}

\* the inputs of the test suite, names around the reserved ones, and names
\* around and beyond the limit of 200 characters
LongNames ==
    { Repeat("a", SliceLimit + 100),
      Repeat("a", SliceLimit),
      Repeat("a", SliceLimit - 1) \o <<" ", "b">>,
      Repeat("a", SliceLimit - 1) \o <<".", "b">>,
      Repeat("a", SliceLimit - 2) \o <<" ", ".", "b">>,
      Repeat("a", SliceLimit - 1) \o <<HighSurrogate, LowSurrogate>>,
      Repeat("a", SliceLimit - 2) \o <<" ", HighSurrogate, LowSurrogate>>,
      Repeat("a", SliceLimit - 2) \o <<HighSurrogate, LowSurrogate, "b">>,
      Repeat(".", SliceLimit + 1) \o <<"b">>,
      Repeat(" ", SliceLimit + 1),
      <<".">> \o Repeat("a", SliceLimit - 2) \o <<":", "b">>,
      <<"c", "o", "n", ".">> \o Repeat("a", SliceLimit - 4) \o <<"b">> }

TestNames ==
    { <<"f", "i", "l", "e", "<", ">", ":", "\"", "/", "\\", "|", "?", "*", "n", "a", "m", "e">>,
      <<".", ".", "\\", ".", ".", "\\", "e", "t", "c", "\\", "p", "a", "s", "s", "w", "d">>,
      <<".", ".", ".", "h", "i", "d", "d", "e", "n">>,
      <<"f", "i", "l", "e", "n", "a", "m", "e", ".", ".", ".">>,
      <<"f", "i", "l", "e", "n", "a", "m", "e", " ", " ", " ">>,
      <<"C", "O", "N">>,
      <<"P", "R", "N">>,
      <<"A", "U", "X">>,
      <<"N", "U", "L">>,
      <<"C", "O", "M", "1">>,
      <<"L", "P", "T", "9">>,
      <<"C", "O", "N", ".", "t", "x", "t">>,
      <<"N", "U", "L", ".", "p", "n", "g">>,
      <<"m", "y", "-", "d", "o", "c", "u", "m", "e", "n", "t">>,
      <<"c", "o", "n">>,
      <<"c", "o", "m", "0">>,
      <<"C", "O", "M", "1", ".">>,
      <<"n", "u", "l", ".">>,
      <<"a", "u", "x", " ", ".", "a">>,
      <<"l", "p", "t">>,
      <<".", "c", "o", "n">>,
      <<"c", "o", "n", "x">>,
      <<"f", "i", "l", "e", "U+0000", "U+001F", "n", "a", "m", "e">>,
      <<"a", "U+007F", "b">>,
      <<HighSurrogate, LowSurrogate>>,
      <<HighSurrogate>>,
      <<"c", "o", "n", ".", "a", LineSeparator, "b">>,
      <<"C", "O", "N", ".", LineSeparator>>,
      <<"a", LineSeparator>> }

InputNames == StringsUpTo(SelectionChars, MaxNameLen) \cup TestNames \cup LongNames

InitSanitize ==
    /\ inputName \in InputNames
    /\ safeName = <<>>
    /\ pasteStep = "selected"
    /\ NoConversion /\ NoCalls /\ NoBatch /\ NoOutline

\* the paste command sanitizes the selected text
SanitizeSelection ==
    /\ pasteStep = "selected"
    /\ inputName # <<>>
    /\ safeName' = selectText(inputName)
    /\ pasteStep' = "named"
    /\ UNCHANGED <<inputName, conversionVars, calls, batchVars, outlineVars>>

\* sanitizeFileName('') as the test suite calls it
SanitizeEmpty ==
    /\ pasteStep = "selected"
    /\ inputName = <<>>
    /\ safeName' = outlineSanitizeFileName(inputName)
    /\ pasteStep' = "named"
    /\ UNCHANGED <<inputName, conversionVars, calls, batchVars, outlineVars>>

NextSanitize == SanitizeSelection \/ SanitizeEmpty

SpecSanitize == InitSanitize /\ [][NextSanitize]_vars

\* ------------------------------------------------------------------
\* batches of documents from several folders: uri.fsPath is folder/name.docx,
\* and two documents of one batch differ in their fsPath

Folders == {<<"/", "A">>, <<"/", "B">>}

FolderNames == {<<"r">>, <<"a", ":", "b">>, <<"a", "_", "b">>}

fsPath(doc) == doc.folder \o <<"/">> \o doc.wordFileName \o <<".", "d", "o", "c", "x">>

\* each document converts to a text of its own, with one image
FolderDocs ==
    {[folder |-> f, wordFileName |-> n,
      conversion |-> Converts(<<"o", "f", " ">> \o f \o <<"/">> \o n, 1, <<>>)] :
        f \in Folders, n \in FolderNames}
    \cup {[folder |-> <<"/", "C">>, wordFileName |-> <<"r">>,
           conversion |-> Raises(<<"b", "a", "d">>)]}

RECURSIVE FolderBatches(_)
FolderBatches(n) ==
    IF n = 0 THEN {<<>>}
    ELSE {Append(b, d) : b \in FolderBatches(n - 1), d \in FolderDocs}

FolderSelections ==
    {b \in UNION {FolderBatches(n) : n \in 0..MaxFiles} :
        \A m \in 1..Len(b) : \A n \in 1..Len(b) : m # n => fsPath(b[m]) # fsPath(b[n])}

InitFolders ==
    /\ fileUris \in FolderSelections
    /\ fileIndex = 0
    /\ step = "selected"
    /\ isCancellationRequested = FALSE
    /\ results = <<>>
    /\ mdFiles = {}
    /\ imageFiles = {}
    /\ shown = <<>>
    /\ NoConversion /\ NoCalls /\ NoSanitize /\ NoOutline

SpecFolders == InitFolders /\ [][NextBatch]_vars

\* --------------------------------------------------- the outline provider
\* MarkdownOutlineProvider on top of MarkdownDocumentTracker. The editor is
\* the environment: the open Markdown documents, the version of their text
\* and the active tab (an editor of an open document, a custom-editor preview
\* of a document, or a tab of another kind). One tab is modelled, the active
\* one.
MaxParses == 3

MaxVersion == 1

Uris == {"a.md", "b.md"}

OtherTab == [kind |-> "other", uri |-> NoDocument]

\* the tabs the user can activate while the documents docs are open
Tabs(docs) ==
    {OtherTab} \cup {[kind |-> "editor", uri |-> d] : d \in docs}
    \cup {[kind |-> "preview", uri |-> d] : d \in Uris}

findOpenMarkdownDocument(docs, uri) == IF uri \in docs THEN uri ELSE NoDocument

getActiveMarkdownPreviewUri ==
    IF activeTab.kind = "preview" THEN activeTab.uri ELSE NoDocument

isMarkdownPreviewActive == activeTab.kind = "preview"

hasMarkdownPreviewTabForUri(uri) == activeTab.kind = "preview" /\ activeTab.uri = uri

isCurrentDocument(uri) == documentUri = uri

\* vscode.window.activeTextEditor?.document, NoDocument when it is no
\* Markdown document
activeDocument == IF activeTab.kind = "editor" THEN activeTab.uri ELSE NoDocument

getTargetMarkdownDocument(docs) ==
    LET previewUri == getActiveMarkdownPreviewUri
    IN IF previewUri # NoDocument /\ findOpenMarkdownDocument(docs, previewUri) # NoDocument
       THEN previewUri
       ELSE IF isMarkdownPreviewActive /\ documentUri # NoDocument
       THEN findOpenMarkdownDocument(docs, documentUri)
       ELSE IF activeDocument # NoDocument THEN activeDocument
       ELSE IF documentUri # NoDocument THEN findOpenMarkdownDocument(docs, documentUri)
       ELSE NoDocument

\* the symbols the provider can answer with for uri, asked at version asked:
\* none, or the headings of a text the document had since
SymbolAnswers(uri, asked) ==
    {<<>>} \cup {<<[version |-> v]>> : v \in asked..docVersion[uri]}

\* convertSymbols(symbols, document.uri, document): one item per symbol
convertSymbols(symbols, uri) ==
    AsSeq([k \in 1..Len(symbols) |-> [documentUri |-> uri, version |-> symbols[k].version]])

\* parseDocument up to its await, with docs the documents open when it runs:
\* a call that finds no document returns at once
parseDocument(docs) ==
    /\ parseGeneration < MaxParses
    /\ parseGeneration' = parseGeneration + 1
    /\ LET document == getTargetMarkdownDocument(docs)
       IN IF document = NoDocument
          THEN /\ IF documentUri = NoDocument
                  THEN items' = <<>> /\ fired' = TRUE
                  ELSE UNCHANGED items /\ fired' = FALSE
               /\ parses' = Append(parses, [pc |-> "returned", document |-> NoDocument,
                                            version |-> 0, symbols |-> <<>>])
               /\ UNCHANGED documentUri
          ELSE /\ documentUri' = document
               /\ parses' = Append(parses, [pc |-> "awaiting", document |-> document,
                                            version |-> docVersion[document],
                                            symbols |-> <<>>])
               /\ UNCHANGED items /\ fired' = FALSE

\* the state after the constructor, whose refresh() is the first parse:
\* this.documentUri is undefined then, so the target is the document of the
\* active preview when it is open, or that of the active editor
InitOutline ==
    /\ textDocuments \in SUBSET Uris
    /\ docVersion = [d \in Uris |-> 0]
    /\ activeTab \in Tabs(textDocuments)
    /\ parseGeneration = 1
    /\ \E document \in {IF activeTab.kind = "other" THEN NoDocument
                        ELSE findOpenMarkdownDocument(textDocuments, activeTab.uri)} :
         /\ documentUri = document
         /\ items = <<>>
         /\ fired = (document = NoDocument)
         /\ parses = <<[pc |-> IF document = NoDocument THEN "returned" ELSE "awaiting",
                        document |-> document, version |-> 0, symbols |-> <<>>]>>
    /\ closeTimers = {}
    /\ refreshTimeout = FALSE
    /\ opening = {}
    /\ NoConversion /\ NoCalls /\ NoBatch /\ NoSanitize

\* the user activates another tab
SwitchTab(t) ==
    /\ t # activeTab
    /\ activeTab' = t
    /\ fired' = FALSE
    /\ UNCHANGED <<textDocuments, docVersion, documentUri, items, parseGeneration, parses,
                   closeTimers, refreshTimeout, opening>>
    /\ UNCHANGED <<conversionVars, calls, batchVars, sanitizeVars>>

\* refresh(), from onDidChangeActiveTextEditor or from the refresh command
Refresh ==
    /\ parseDocument(textDocuments)
    /\ UNCHANGED <<textDocuments, docVersion, activeTab, closeTimers, refreshTimeout,
                   opening>>
    /\ UNCHANGED <<conversionVars, calls, batchVars, sanitizeVars>>

\* refreshForTabChange(), from onDidChangeTabs and onDidChangeTabGroups: it
\* opens the document of the active preview first when that is not open
RefreshForTabChange ==
    /\ LET previewUri == getActiveMarkdownPreviewUri
       IN IF /\ previewUri # NoDocument
             /\ findOpenMarkdownDocument(textDocuments, previewUri) = NoDocument
          THEN /\ opening' = opening \cup {previewUri}
               /\ UNCHANGED <<documentUri, items, parseGeneration, parses>>
               /\ fired' = FALSE
          ELSE /\ parseDocument(textDocuments)
               /\ UNCHANGED opening
    /\ UNCHANGED <<textDocuments, docVersion, activeTab, closeTimers, refreshTimeout>>
    /\ UNCHANGED <<conversionVars, calls, batchVars, sanitizeVars>>

\* openTextDocument(previewUri) resolves; refreshForTabChange goes on
OpenResolves(uri) ==
    /\ uri \in opening
    /\ opening' = opening \ {uri}
    /\ textDocuments' = textDocuments \cup {uri}
    /\ parseDocument(textDocuments \cup {uri})
    /\ UNCHANGED <<docVersion, activeTab, closeTimers, refreshTimeout>>
    /\ UNCHANGED <<conversionVars, calls, batchVars, sanitizeVars>>

\* openTextDocument(previewUri) rejects; the failure is ignored
OpenRejects(uri) ==
    /\ uri \in opening
    /\ opening' = opening \ {uri}
    /\ parseDocument(textDocuments)
    /\ UNCHANGED <<textDocuments, docVersion, activeTab, closeTimers, refreshTimeout>>
    /\ UNCHANGED <<conversionVars, calls, batchVars, sanitizeVars>>

\* the text of an open document changes; onDidChangeTextDocument
EditDocument(uri) ==
    /\ uri \in textDocuments
    /\ docVersion[uri] < MaxVersion
    /\ docVersion' = [docVersion EXCEPT ![uri] = @ + 1]
    /\ refreshTimeout' = IF uri = activeDocument \/ isCurrentDocument(uri)
                         THEN TRUE ELSE refreshTimeout
    /\ fired' = FALSE
    /\ UNCHANGED <<textDocuments, activeTab, documentUri, items, parseGeneration, parses,
                   closeTimers, opening>>
    /\ UNCHANGED <<conversionVars, calls, batchVars, sanitizeVars>>

\* the timer of debouncedRefresh runs
DebouncedRefresh ==
    /\ refreshTimeout
    /\ refreshTimeout' = FALSE
    /\ parseDocument(textDocuments)
    /\ UNCHANGED <<textDocuments, docVersion, activeTab, closeTimers, opening>>
    /\ UNCHANGED <<conversionVars, calls, batchVars, sanitizeVars>>

\* a document is closed; onDidCloseTextDocument sets its timer when the
\* document is the tracked one
CloseTextDocument(uri) ==
    /\ uri \in textDocuments
    /\ textDocuments' = textDocuments \ {uri}
    /\ activeTab' = IF activeTab = [kind |-> "editor", uri |-> uri] THEN OtherTab
                    ELSE activeTab
    /\ closeTimers' = IF isCurrentDocument(uri) THEN closeTimers \cup {uri} ELSE closeTimers
    /\ fired' = FALSE
    /\ UNCHANGED <<docVersion, documentUri, items, parseGeneration, parses, refreshTimeout,
                   opening>>
    /\ UNCHANGED <<conversionVars, calls, batchVars, sanitizeVars>>

\* the timer of onDidCloseTextDocument runs, and onDocumentClosed() when the
\* document is neither open nor shown in a preview
CloseTimer(uri) ==
    /\ uri \in closeTimers
    /\ closeTimers' = closeTimers \ {uri}
    /\ LET stillOpen == uri \in textDocuments
           stillVisibleInPreview == hasMarkdownPreviewTabForUri(uri)
       IN IF ~stillOpen /\ ~stillVisibleInPreview
          THEN /\ items' = <<>>
               /\ documentUri' = NoDocument
               /\ fired' = TRUE
          ELSE UNCHANGED <<items, documentUri>> /\ fired' = FALSE
    /\ UNCHANGED <<textDocuments, docVersion, activeTab, parseGeneration, parses,
                   refreshTimeout, opening>>
    /\ UNCHANGED <<conversionVars, calls, batchVars, sanitizeVars>>

\* executeDocumentSymbolProvider of the parse of generation g resolves
SymbolsResolve(g) ==
    /\ parses[g].pc = "awaiting"
    /\ \E symbols \in SymbolAnswers(parses[g].document, parses[g].version) :
         /\ parses' = [parses EXCEPT ![g].pc = "returned", ![g].symbols = symbols]
         /\ IF g # parseGeneration
            THEN UNCHANGED items /\ fired' = FALSE
            ELSE /\ items' = IF Len(symbols) > 0
                             THEN convertSymbols(symbols, parses[g].document) ELSE <<>>
                 /\ fired' = TRUE
    /\ UNCHANGED <<textDocuments, docVersion, activeTab, documentUri, parseGeneration,
                   closeTimers, refreshTimeout, opening>>
    /\ UNCHANGED <<conversionVars, calls, batchVars, sanitizeVars>>

\* executeDocumentSymbolProvider of the parse of generation g rejects
SymbolsReject(g) ==
    /\ parses[g].pc = "awaiting"
    /\ parses' = [parses EXCEPT ![g].pc = "returned"]
    /\ IF g # parseGeneration
       THEN UNCHANGED items /\ fired' = FALSE
       ELSE /\ items' = <<>>
            /\ fired' = TRUE
    /\ UNCHANGED <<textDocuments, docVersion, activeTab, documentUri, parseGeneration,
                   closeTimers, refreshTimeout, opening>>
    /\ UNCHANGED <<conversionVars, calls, batchVars, sanitizeVars>>

NextOutline ==
    \/ \E t \in Tabs(textDocuments) : SwitchTab(t)
    \/ Refresh
    \/ RefreshForTabChange
    \/ \E uri \in Uris : OpenResolves(uri)
    \/ \E uri \in Uris : OpenRejects(uri)
    \/ \E uri \in Uris : EditDocument(uri)
    \/ DebouncedRefresh
    \/ \E uri \in Uris : CloseTextDocument(uri)
    \/ \E uri \in Uris : CloseTimer(uri)
    \/ \E g \in 1..Len(parses) : SymbolsResolve(g)
    \/ \E g \in 1..Len(parses) : SymbolsReject(g)

SpecOutline == InitOutline /\ [][NextOutline]_vars

\* ---------------------------------------------------- claims: vocabulary
\* every node below t (t itself excluded), as a set of trees
RECURSIVE Below(_)
Below(t) ==
    UNION {{t.kids[k]} \cup Below(t.kids[k]) : k \in 1..Len(t.kids)}

\* the tables of a list of nodes that lie in no other table, in document order
RECURSIVE TopLevelTables(_)
TopLevelTables(nodes) ==
    Concat(AsSeq([k \in 1..Len(nodes) |->
                    IF nodes[k].tag = "table" THEN <<nodes[k]>>
                    ELSE TopLevelTables(nodes[k].kids)]))

\* the attribute value v is present and reads as an integer above 1: white
\* space, an optional '+', then a run of digits (ended by a non-digit or by
\* the end of the value) that has a non-zero digit other than a final lone 1
SpanExceedsOne(v) ==
    /\ v # Null
    /\ \E w \in 0..Len(v), a \in 0..Len(v), b \in 1..Len(v) :
         /\ w <= a /\ a < b
         /\ \A k \in 1..w : IsSpace(v[k])
         /\ a = w \/ (a = w + 1 /\ v[a] = "+")
         /\ \A k \in (a + 1)..b : IsDigit(v[k])
         /\ b = Len(v) \/ ~IsDigit(v[b + 1])
         /\ \E k \in (a + 1)..b :
              /\ v[k] # "0"
              /\ v[k] # "1" \/ k < b
              /\ \A j \in (a + 1)..(k - 1) : v[j] = "0"

\* the classification the specification gives a table
ComplexBySpec(t) ==
    \/ \E n \in Below(t) : n.tag = "img"
    \/ \E n \in Below(t) : n.tag \in {"ul", "ol"}
    \/ \E n \in Below(t) : n.tag = "table"
    \/ \E n \in Below(t) :
         /\ n.tag \in {"td", "th"}
         /\ \/ SpanExceedsOne(getAttribute(n, "colspan"))
            \/ SpanExceedsOne(getAttribute(n, "rowspan"))

\* all table elements of the parsed document, as ids of the arena
AllTableIds(store) == querySelectorAll(store, BodyId, {"table"})

\* C1: isComplexTable answers COMPLEX exactly for the tables that hold an
\* image, a list, a nested table or a cell whose colspan or rowspan reads as
\* an integer above 1, and SIMPLE for every other table.
C1_Classifier ==
    pc = "done" =>
        \A doc \in {ParseDocument(html)} :
            \A k \in 1..Len(AllTableIds(doc)) :
                \A id \in {AllTableIds(doc)[k]} :
                    isComplexTable(doc, id) <=> ComplexBySpec(ToTree(doc, id))

\* a finished conversion whose document has a table that is COMPLEX by a
\* span alone and a table that is SIMPLE although it carries a span attribute
C1_Witness ==
    /\ pc = "done"
    /\ \E doc \in {ParseDocument(html)} :
         /\ \E k \in 1..Len(AllTableIds(doc)) :
              /\ isComplexTable(doc, AllTableIds(doc)[k])
              /\ ~HasDescendant(ToTree(doc, AllTableIds(doc)[k]), {"img", "ul", "ol", "table"})
         /\ \E k \in 1..Len(AllTableIds(doc)) : ~isComplexTable(doc, AllTableIds(doc)[k])

\* the placeholder the specification puts in a COMPLEX table's place
PlaceholderFor(t) ==
    Elem("complex-table", <<Attr("data-html", Serialize(t))>>,
         <<TextNode(PlaceholderText)>>)

\* the list of nodes with each COMPLEX table that lies in no other table
\* replaced, where it stands, by its placeholder, and nothing else touched
RECURSIVE Isolated(_)
Isolated(nodes) ==
    AsSeq([k \in 1..Len(nodes) |->
        IF nodes[k].tag = "table"
        THEN IF ComplexBySpec(nodes[k]) THEN PlaceholderFor(nodes[k]) ELSE nodes[k]
        ELSE [nodes[k] EXCEPT !.kids = Isolated(nodes[k].kids)]])

\* C2: the isolation pass replaces, in place, each COMPLEX top-level table by
\* one placeholder whose payload is that table's serialized markup, leaves
\* SIMPLE top-level tables and all other nodes as they were, and keeps the
\* order of siblings.
C2_Isolation ==
    pc = "done" => bodyInnerHTML(preprocessed) = Isolated(html)

\* a finished conversion in which a COMPLEX top-level table, replaced by its
\* placeholder, is followed by a sibling that stayed as it was
C2_Witness ==
    /\ pc = "done"
    /\ Len(html) >= 2
    /\ html[1].tag = "table"
    /\ ComplexBySpec(html[1])
    /\ bodyInnerHTML(preprocessed)[1].tag = "complex-table"
    /\ bodyInnerHTML(preprocessed)[2] = html[2]

\* position k of s starts an occurrence of t
OccursAt(s, t, k) ==
    /\ k + Len(t) - 1 <= Len(s)
    /\ \A j \in 1..Len(t) : s[k + j - 1] = t[j]

\* the occurrence of t at position k of s has the start of s or an empty line
\* before it and the end of s or an empty line after it
SetOff(s, t, k) ==
    /\ k = 1 \/ (k >= 3 /\ s[k - 1] = "\n" /\ s[k - 2] = "\n")
    /\ \/ k + Len(t) - 1 = Len(s)
       \/ /\ k + Len(t) + 1 <= Len(s)
          /\ s[k + Len(t)] = "\n"
          /\ s[k + Len(t) + 1] = "\n"

\* C3: the Markdown holds the serialized HTML of every COMPLEX top-level
\* table of the input, character for character, set off from the text around
\* it by empty lines.
C3_Verbatim ==
    pc = "done" =>
        \A tables \in {TopLevelTables(html)} :
            \A n \in 1..Len(tables) :
                ComplexBySpec(tables[n]) =>
                    \A markup \in {Serialize(tables[n])} :
                        \E k \in 1..Len(result.markdown) :
                            /\ OccursAt(result.markdown, markup, k)
                            /\ SetOff(result.markdown, markup, k)

\* a finished conversion of a paragraph, a COMPLEX table whose text has
\* characters that Markdown and HTML escape, and another node
C3_Witness ==
    /\ pc = "done"
    /\ Len(html) = 3
    /\ html[1].tag = "p"
    /\ html[2].tag = "table"
    /\ ComplexBySpec(html[2])
    /\ \E n \in Below(html[2]) : n.tag = TextTag /\ Contains(n.text, <<"*">>)
    /\ Contains(result.markdown, Serialize(html[2]))

\* the elements below a list of nodes whose tag is one of tags, in document
\* order
RECURSIVE ElementsNamed(_, _)
ElementsNamed(nodes, tags) ==
    Concat(AsSeq([k \in 1..Len(nodes) |->
                    (IF nodes[k].tag \in tags THEN <<nodes[k]>> ELSE <<>>)
                    \o ElementsNamed(nodes[k].kids, tags)]))

\* the cells of a row element, and the rows of a table that have a cell
CellsOf(tr) == ElementsNamed(tr.kids, {"td", "th"})

NonEmptyRows(t) ==
    SelectSeq(ElementsNamed(t.kids, {"tr"}), LAMBDA tr : Len(CellsOf(tr)) > 0)

\* the largest number of cells that a row of the table has
WidestRow(t) ==
    CHOOSE c \in 0..(MaxCols + 4) :
        /\ \A k \in 1..Len(NonEmptyRows(t)) : Len(CellsOf(NonEmptyRows(t)[k])) <= c
        /\ \E k \in 1..Len(NonEmptyRows(t)) : Len(CellsOf(NonEmptyRows(t)[k])) = c

\* s cut at every occurrence of the character c
RECURSIVE SplitOn(_, _)
SplitOn(s, c) ==
    IF \E k \in 1..Len(s) : s[k] = c
    THEN LET k == CHOOSE k \in 1..Len(s) : s[k] = c /\ \A j \in 1..(k - 1) : s[j] # c
         IN <<SubSeq(s, 1, k - 1)>> \o SplitOn(SubSeq(s, k + 1, Len(s)), c)
    ELSE <<s>>

\* the positions of a line that hold a delimiter: a '|' that no backslash
\* stands directly in front of (the rule by which GFM readers cut a row)
Delimiters(line) ==
    {k \in 1..Len(line) : line[k] = "|" /\ (k = 1 \/ line[k - 1] # "\\")}

\* the n-th smallest element of a set of numbers
Nth(S, n) == CHOOSE k \in S : Cardinality({j \in S : j < k}) = n - 1

\* the cells read back from a line: what stands between consecutive
\* delimiters, without the space after the one and the padding before the other
ReadCells(line) ==
    AsSeq([n \in 1..(Cardinality(Delimiters(line)) - 1) |->
        TrimEnd(SubSeq(line, Nth(Delimiters(line), n) + 2,
                       Nth(Delimiters(line), n + 1) - 1))])

\* the lines of a rendered table, without the line breaks that frame it
TableLines(md) == SplitOn(SubSeq(md, 2, Len(md) - 1), "\n")

\* a line starts and ends with a delimiter
Framed(line) == Len(line) >= 2 /\ {1, Len(line)} \subseteq Delimiters(line)

\* the SIMPLE top-level tables of the converted document that have a row
\* with a cell, as the emitter's simpleTable rule receives them
RenderedTables ==
    SelectSeq(TopLevelTables(html),
              LAMBDA t : ~ComplexBySpec(t) /\ Len(NonEmptyRows(t)) > 0)

\* C4: every line of a rendered simple table (header, separator, data rows)
\* reads back as exactly C cells, C the largest number of cells of any row
\* of the source table; the cells a shorter row lacks are empty.
C4_ColumnCount ==
    pc = "done" =>
        \A tables \in {RenderedTables} :
            \A n \in 1..Len(tables) :
                \A md \in {convertSimpleTableToMarkdown(tables[n])} :
                    \A lines \in {TableLines(md)} :
                        /\ md # <<>>
                        /\ Contains(result.markdown, SubSeq(md, 2, Len(md) - 1))
                        /\ \A l \in 1..Len(lines) :
                             /\ Framed(lines[l])
                             /\ Len(ReadCells(lines[l])) = WidestRow(tables[n])
                        /\ \A r \in 1..Len(NonEmptyRows(tables[n])) :
                             \A l \in {IF r = 1 THEN 1 ELSE r + 1} :
                                 /\ l <= Len(lines)
                                 /\ \A c \in 1..Len(ReadCells(lines[l])) :
                                      c > Len(CellsOf(NonEmptyRows(tables[n])[r]))
                                          => ReadCells(lines[l])[c] = <<>>

\* a finished conversion with a simple table whose first row is shorter than
\* a later row
C4_Witness ==
    /\ pc = "done"
    /\ \E n \in 1..Len(RenderedTables) :
         /\ Len(NonEmptyRows(RenderedTables[n])) >= 2
         /\ Len(CellsOf(NonEmptyRows(RenderedTables[n])[1])) < WidestRow(RenderedTables[n])
         /\ Len(TableLines(convertSimpleTableToMarkdown(RenderedTables[n]))) >= 3

\* the number of positions of s that hold the character c
Count(s, c) == Cardinality({k \in 1..Len(s) : s[k] = c})

\* C5: in a rendered simple table every cell text has a backslash in front of
\* each '|' of the cell's converted content and has no line break; each line
\* has exactly C+1 delimiters ('|' with no backslash directly in front), and
\* the table has one line per non-empty row plus the separator line.
C5_Escaping ==
    pc = "done" =>
        \A tables \in {RenderedTables} :
            \A n \in 1..Len(tables) :
                \A lines \in {TableLines(convertSimpleTableToMarkdown(tables[n]))} :
                    /\ Len(lines) = Len(NonEmptyRows(tables[n])) + 1
                    /\ \A l \in 1..Len(lines) :
                         Cardinality(Delimiters(lines[l])) = WidestRow(tables[n]) + 1
                    /\ \A r \in 1..Len(NonEmptyRows(tables[n])) :
                         \A cells \in {CellsOf(NonEmptyRows(tables[n])[r])} :
                             \A c \in 1..Len(cells) :
                                 \A converted \in {turndown(Reparse(cells[c]).kids)} :
                                     \A text \in {ReadCells(lines[IF r = 1 THEN 1 ELSE r + 1])[c]} :
                                         /\ Count(text, "\n") = 0
                                         /\ Count(text, "|") = Count(converted, "|")
                                         /\ \A k \in 1..Len(text) :
                                              text[k] = "|" => k > 1 /\ text[k - 1] = "\\"
                                         /\ Len(text) <= Len(converted) + Count(converted, "|")

\* a finished conversion with a simple table one cell of which converts to
\* Markdown that has a '|' and a line break
C5_Witness ==
    /\ pc = "done"
    /\ \E n \in 1..Len(RenderedTables) :
         \E tr \in Below(RenderedTables[n]) :
             /\ tr.tag = "tr"
             /\ \E c \in 1..Len(CellsOf(tr)) :
                  /\ Count(turndown(CellsOf(tr)[c].kids), "|") > 0
                  /\ Count(turndown(CellsOf(tr)[c].kids), "\n") > 0
                  /\ Count(getCellContent(CellsOf(tr)[c].kids), "|") > 0

\* the number a run of decimal digits writes
RECURSIVE DecimalValue(_)
DecimalValue(digits) ==
    IF digits = <<>> THEN 0
    ELSE DecimalValue(SubSeq(digits, 1, Len(digits) - 1)) * 10
         + DigitVal(digits[Len(digits)])

\* the warning w reads 'Failed to extract image <n>: <message>', n written in
\* decimal without leading zeros
WarningNames(w, n, message) ==
    \E d \in 1..(Len(w) - Len(FailedPrefix)) :
        \E digits \in {SubSeq(w, Len(FailedPrefix) + 1, Len(FailedPrefix) + d)} :
            /\ w = FailedPrefix \o digits \o <<":", " ">> \o message
            /\ \A k \in 1..d : IsDigit(digits[k])
            /\ d = 1 \/ digits[1] # "0"
            /\ DecimalValue(digits) = n

\* the ordinals a file name or reference shows: three digits between
\* '-image-' and the '.' of the extension
NameOrdinals(name) ==
    {DecimalValue(SubSeq(name, k + 7, k + 9)) :
        k \in {k \in 1..(Len(name) - 10) :
                 /\ OccursAt(name, ImageInfix, k)
                 /\ \A j \in (k + 7)..(k + 9) : IsDigit(name[j])
                 /\ name[k + 10] = "."}}

Returned == {i \in 1..Len(cb) : cb[i].pc = "returned"}

WriteFailed == {i \in Returned : cb[i].failed = "write"}

ReadFailed == {i \in Returned : cb[i].failed = "read"}

Written == {i \in Returned : cb[i].failed = "none"}

\* C6: when the conversion of a document with N images returns, the ordinals
\* of its images are exactly 1..N, none repeated and none left out, whatever
\* failed on the way, and imageCount is N.
C6_OrdinalsComplete ==
    pc = "done" =>
        /\ {cb[i].used : i \in 1..Len(cb)} = 1..Len(docx.images)
        /\ result.imageCount = Len(docx.images)

\* C7: an image whose write fails does not end the conversion: its callback
\* returns an empty src, exactly one warning with its ordinal and the error's
\* message is added, no other image gets or loses an ordinal because of it,
\* and the images after it are written under the next ordinals. Three images
\* the second of whose writes fails give imageCount 3, one warning that names
\* ordinal 2, and two references into images/.
C7_WriteFailure ==
    /\ Cardinality({k \in 1..Len(warnings) :
                      \E n \in 0..MaxImages + 1 : WarningNames(warnings[k], n, WriteError)})
         = Cardinality(WriteFailed)
    /\ \A i \in WriteFailed :
         /\ cb[i].src = <<>>
         /\ Cardinality({k \in 1..Len(warnings) :
                           WarningNames(warnings[k], cb[i].used, WriteError)}) = 1
    /\ \A i \in Written :
         /\ OccursAt(cb[i].src, ImagesPrefix, 1)
         /\ cb[i].path \in files
         /\ NameOrdinals(cb[i].src) = {cb[i].used}
    /\ {cb[i].used : i \in WriteFailed \cup Written} = 1..imageIndex
    /\ Cardinality(WriteFailed \cup Written) = imageIndex
    /\ pc = "done" =>
         /\ Returned = 1..Len(docx.images)
         /\ result.imageCount = imageIndex
         /\ SubSeq(result.warnings, 1, Cardinality(WriteFailed \cup ReadFailed))
              = SubSeq(warnings, 1, Cardinality(WriteFailed \cup ReadFailed))
    /\ (/\ pc = "done"
        /\ Len(docx.images) = 3
        /\ ReadFailed = {}
        /\ \E i \in WriteFailed : cb[i].used = 2 /\ WriteFailed = {i})
       => /\ result.imageCount = 3
          /\ Cardinality({k \in 1..Len(result.warnings) :
                            OccursAt(result.warnings[k], FailedPrefix, 1)}) = 1
          /\ \E k \in 1..Len(result.warnings) :
               WarningNames(result.warnings[k], 2, WriteError)
          /\ Cardinality(Written) = 2
          /\ UNION {NameOrdinals(cb[i].src) : i \in Written} = {1, 3}

\* a finished conversion of three images, the second of whose writes failed
\* while the first and the third image were written
C7_Witness ==
    /\ pc = "done"
    /\ Len(docx.images) = 3
    /\ WriteFailed = {2}
    /\ Written = {1, 3}
    /\ cb[2].used = 2
    /\ result.imageCount = 3

\* C8: an image whose read fails takes an ordinal of its own all the same:
\* its warning names an ordinal from 1 on that no other image has, so the
\* image after it gets the ordinal after the failed one.
C8_ReadFailureKeepsSlot ==
    \A i \in ReadFailed :
        /\ cb[i].used >= 1
        /\ \A j \in Returned \ {i} : cb[j].used # cb[i].used
        /\ \E k \in 1..Len(warnings) : WarningNames(warnings[k], cb[i].used, ReadError)

\* C9: of two images that have an ordinal, the one whose callback the
\* provider invoked first has the smaller ordinal, however the reads and
\* writes of the callbacks interleave.
C9_InvocationOrder ==
    \A i \in Written \cup WriteFailed : \A j \in Written \cup WriteFailed :
        i < j => cb[i].used < cb[j].used

\* the extension the specification's table gives a content type: three
\* entries, '.png' for every other or absent content type
ExtOfThree(contentType) ==
    IF contentType = "image/jpeg" THEN <<".", "j", "p", "g">>
    ELSE IF contentType = "image/gif" THEN <<".", "g", "i", "f">>
    ELSE <<".", "p", "n", "g">>

\* the same with the entries for bmp and webp
ExtOfFive(contentType) ==
    IF contentType = "image/bmp" THEN <<".", "b", "m", "p">>
    ELSE IF contentType = "image/webp" THEN <<".", "w", "e", "b", "p">>
    ELSE ExtOfThree(contentType)

\* name is stem, '-image-', the ordinal in at least three digits with zeros
\* in front, and ext
NamedAs(name, stem, ordinal, ext) ==
    \E d \in 3..4 :
        \E digits \in {SubSeq(name, Len(stem) + 8, Len(stem) + 7 + d)} :
            /\ name = stem \o ImageInfix \o digits \o ext
            /\ \A k \in 1..d : IsDigit(digits[k])
            /\ d = 3 \/ digits[1] # "0"
            /\ DecimalValue(digits) = ordinal

\* image i is a file of the image directory itself, and the callback
\* returned 'images/' and the file's name
StoredAndReferenced(i) ==
    /\ cb[i].path \in files
    /\ Len(cb[i].path) = Len(pathJoin(ImagesDir, <<>>)) + 1
    /\ SubSeq(cb[i].path, 1, Len(cb[i].path) - 1) = pathJoin(ImagesDir, <<>>)
    /\ cb[i].src = ImagesPrefix \o cb[i].path[Len(cb[i].path)]

\* C10 as the specification has it: the file of a written image is named
\* '<baseName>-image-<ordinal in three digits><ext>', baseName as given, ext
\* from the table png, jpeg, gif and '.png' otherwise; the file lies in the
\* image directory and the callback returns 'images/<file name>'.
C10_NameFromBaseName ==
    \A i \in Written :
        /\ StoredAndReferenced(i)
        /\ NamedAs(SubSeq(cb[i].src, Len(ImagesPrefix) + 1, Len(cb[i].src)),
                   docx.baseName, cb[i].used, ExtOfThree(docx.images[i]))

\* C10, amended: the file of a written image is named '<safe name>-image-
\* <ordinal in three digits><ext>', the safe name being sanitizeFileName of
\* the base name and ext coming from the table png, jpeg, gif, bmp, webp and
\* '.png' otherwise; the file lies in the image directory and the callback
\* returns 'images/<file name>'.
C10_NameFromSafeName ==
    \A i \in Written :
        /\ StoredAndReferenced(i)
        /\ NamedAs(SubSeq(cb[i].src, Len(ImagesPrefix) + 1, Len(cb[i].src)),
                   sanitizeFileName(docx.baseName), cb[i].used, ExtOfFive(docx.images[i]))

\* a written image of a document whose base name sanitizeFileName changes
\* and whose content type is one of the two the shorter table lacks
C10_Witness ==
    /\ 1 \in Written
    /\ docx.baseName = <<"a", ":", "b">>
    /\ docx.images[1] = "image/bmp"
    /\ cb[1].src = ImagesPrefix \o <<"a", "_", "b">> \o ImageInfix
                   \o <<"0", "0", "1", ".", "b", "m", "p">>

\* the call that a history of callback events leads to when no other call runs
RECURSIVE RunAlone(_, _)
RunAlone(call, events) ==
    IF events = <<>> THEN call
    ELSE RunAlone(callbackSettles(<<call>>, 1, events[1][1], events[1][2]), Tail(events))

\* C11: two interleaved calls of convertDocxWithImages share no state: the
\* ordinals, the counter, the warnings and the returned imageCount of each
\* call are those the call's own callback history gives when the call runs
\* alone.
C11_NoSharedState ==
    \A c \in 1..Len(calls) :
        \A alone \in {RunAlone(FreshCall(calls[c].docx), calls[c].events)} :
            /\ calls[c].imageIndex = alone.imageIndex
            /\ calls[c].imageIndex
                 = Cardinality({n \in 1..Len(calls[c].events) : calls[c].events[n][2] # "read"})
            /\ \A k \in 1..Len(calls[c].cb) :
                 calls[c].cb[k].pc = "returned" => calls[c].cb[k] = alone.cb[k]
            /\ SubSeq(calls[c].warnings, 1, Len(alone.warnings)) = alone.warnings
            /\ calls[c].pc = "done" =>
                 /\ calls[c].result.imageCount = alone.imageIndex
                 /\ SubSeq(calls[c].result.warnings, 1, Len(alone.warnings)) = alone.warnings
                 /\ Len(calls[c].result.warnings) - Len(alone.warnings) <= 1

\* the second call has returned with two images written while the first
\* call, one image written, still has an image to go
C11_Witness ==
    /\ Len(calls) = 2
    /\ calls[1].pc = "converting"
    /\ calls[1].imageIndex = 1
    /\ \E k \in 1..Len(calls[1].cb) : calls[1].cb[k].pc # "returned"
    /\ calls[2].pc = "done"
    /\ calls[2].result.imageCount = 2
    /\ calls[2].cb[2].used = 2

\* ------------------------------------------------------------------
\* claims about the Markdown files of the batch command

\* the documents of the batch whose Markdown file has been written
WrittenDocs == {k \in 1..Len(results) : results[k].success}

\* the content of the Markdown file written for document k
ContentOf(k) ==
    (CHOOSE f \in mdFiles : f.path = mdFilePath(fileUris[k].wordFileName)).content

BodyOf(k) == fileUris[k].conversion.markdown

TitleOf(k) == fileUris[k].wordFileName

BeginsWith(s, t) == Len(t) <= Len(s) /\ SubSeq(s, 1, Len(t)) = t

\* the number of line feeds that s ends with
RECURSIVE TrailingNewlines(_)
TrailingNewlines(s) ==
    IF s # <<>> /\ s[Len(s)] = "\n"
    THEN 1 + TrailingNewlines(SubSeq(s, 1, Len(s) - 1)) ELSE 0

\* C12: whatever the body and the title, the text that cleanupMarkdown
\* returns (and the batch command writes) ends with exactly one line feed.
C12_OneTrailingNewline ==
    \A k \in WrittenDocs : TrailingNewlines(ContentOf(k)) = 1

\* C13, as stated: for any title T the result begins with "# T" followed by a
\* blank line, and title "Report" with body "hello" gives "# Report\n\nhello\n".
C13_HeadingAnyTitle ==
    \A k \in WrittenDocs :
        /\ BeginsWith(ContentOf(k), <<"#", " ">> \o TitleOf(k) \o <<"\n", "\n">>)
        /\ (TitleOf(k) = <<"R", "e", "p", "o", "r", "t">>
            /\ BodyOf(k) = <<"h", "e", "l", "l", "o">>)
           => ContentOf(k) = <<"#", " ", "R", "e", "p", "o", "r", "t", "\n", "\n",
                               "h", "e", "l", "l", "o", "\n">>

\* a title that the later steps of cleanupMarkdown leave alone: it does not
\* end in white space and holds no "![", no digit followed by "\." and no
\* line feed
PlainTitle(t) ==
    /\ t # <<>>
    /\ ~IsSpace(t[Len(t)])
    /\ \A k \in 1..Len(t) : t[k] # "\n"
    /\ \A k \in 1..(Len(t) - 1) :
        /\ ~(t[k] = "!" /\ t[k + 1] = "[")
        /\ ~(IsDigit(t[k]) /\ t[k + 1] = "\\")

\* C13, amended: for a plain title T the result begins with "# T" followed by
\* a blank line, whatever the body; title "Report" with body "hello" gives
\* "# Report\n\nhello\n".
C13_HeadingPlainTitle ==
    \A k \in WrittenDocs :
        /\ PlainTitle(TitleOf(k))
           => BeginsWith(ContentOf(k), <<"#", " ">> \o TitleOf(k) \o <<"\n", "\n">>)
        /\ (TitleOf(k) = <<"R", "e", "p", "o", "r", "t">>
            /\ BodyOf(k) = <<"h", "e", "l", "l", "o">>)
           => ContentOf(k) = <<"#", " ", "R", "e", "p", "o", "r", "t", "\n", "\n",
                               "h", "e", "l", "l", "o", "\n">>

\* the file of document "Report" with body "hello" has been written, in a
\* batch of one
C13_Witness ==
    /\ Len(fileUris) = 1
    /\ 1 \in WrittenDocs
    /\ TitleOf(1) = <<"R", "e", "p", "o", "r", "t">>
    /\ BodyOf(1) = <<"h", "e", "l", "l", "o">>
    /\ PlainTitle(TitleOf(1))
    /\ step = "returned"

\* an image reference whose parentheses hold nothing or only white space
\* begins at position p of s
EmptyImageAt(s, p) ==
    /\ p + 3 <= Len(s)
    /\ s[p] = "!" /\ s[p + 1] = "["
    /\ \E j \in (p + 2)..(Len(s) - 2) :
        /\ s[j] = "]" /\ s[j + 1] = "("
        /\ \A m \in (p + 2)..(j - 1) : s[m] # "]"
        /\ \E e \in (j + 2)..Len(s) :
            /\ s[e] = ")"
            /\ \A m \in (j + 2)..(e - 1) : IsSpace(s[m])

\* C14: whatever the body, the result holds no image reference with an empty
\* or white-space-only path.
C14_NoEmptyImage ==
    \A k \in WrittenDocs :
        \A p \in 1..Len(ContentOf(k)) : ~EmptyImageAt(ContentOf(k), p)

\* C15: whatever the body, lines of white space included, the result holds no
\* run of three or more line feeds.
C15_NoThreeNewlines ==
    \A k \in WrittenDocs :
        \A p \in 1..(Len(ContentOf(k)) - 2) :
            ~(/\ ContentOf(k)[p] = "\n"
              /\ ContentOf(k)[p + 1] = "\n"
              /\ ContentOf(k)[p + 2] = "\n")

\* ------------------------------------------------------------------
\* claims about the batch loop

\* a Markdown file exists for document k
HasMarkdownFile(k) ==
    \E f \in mdFiles : f.path = mdFilePath(fileUris[k].wordFileName)

\* C16: a conversion that raises is caught and recorded as one failed result
\* for its document, no Markdown file is written for it, and the documents
\* after it are still converted: the results hold one entry per attempted
\* document, in input order, and a loop that was not cancelled attempts
\* every document.
C16_FailureRecorded ==
    /\ Len(results) = fileIndex
    /\ fileIndex <= Len(fileUris)
    /\ \A k \in 1..Len(results) :
        /\ results[k].fileName = fileUris[k].wordFileName
        /\ fileUris[k].conversion.raises
           => /\ results[k] = failedWith(fileUris[k], fileUris[k].conversion.message)
              /\ ~HasMarkdownFile(k)
        /\ results[k].success <=> HasMarkdownFile(k)
    /\ (step \in {"summary", "returned"} /\ ~isCancellationRequested)
       => fileIndex = Len(fileUris)

\* the first document of two could not be converted, the second has been
\* converted and written, and the command has returned
C16_Witness ==
    /\ Len(fileUris) = 2
    /\ fileUris[1].conversion.raises
    /\ step = "returned"
    /\ Len(results) = 2
    /\ ~results[1].success
    /\ results[2].success
    /\ HasMarkdownFile(2)

\* C17: once the loop has seen the cancellation request, no conversion is
\* started and no result is recorded any more; a conversion that has started
\* ends only by recording the result of its document, cancelled or not.
C17_Cancellation ==
    [][/\ (step = "loop" /\ isCancellationRequested)
          => /\ step' \in {"loop", "summary"}
             /\ results' = results /\ mdFiles' = mdFiles
       /\ step \in {"summary", "returned"}
          => /\ step' \in {"summary", "returned"}
             /\ results' = results /\ mdFiles' = mdFiles
       /\ (step = "converting" /\ step' # "converting")
          => /\ step' = "loop"
             /\ Len(results') = Len(results) + 1
             /\ SubSeq(results', 1, Len(results)) = results
             /\ results'[Len(results')].fileName = fileUris[fileIndex + 1].wordFileName]_vars

\* the batch of two was cancelled with the first document recorded and the
\* second never attempted
C17_Witness ==
    /\ Len(fileUris) = 2
    /\ isCancellationRequested
    /\ step = "returned"
    /\ Len(results) = 1
    /\ fileIndex = 1

\* document doc, had it been converted without warnings
WithoutWarnings(doc) == [doc EXCEPT !.conversion.warnings = <<>>]

\* C18: the summary tells documents that succeeded with warnings from
\* documents that succeeded without: what is shown for a batch in which
\* document k succeeded with warnings differs from what is shown when k
\* succeeds with none.
C18_SummaryClasses ==
    (step = "returned" /\ shown # <<>>)
    => \A k \in WrittenDocs :
           fileUris[k].conversion.warnings # <<>>
           => shown # showBatchSummary(
                          [results EXCEPT ![k] = succeeded(WithoutWarnings(fileUris[k]))])

\* ------------------------------------------------------------------
\* claims about the shared sanitizeFileName

\* C19: the name returned for any input is safe as one path component: it is
\* not empty ("_" for the empty input), holds none of < > : " / \ | ? * and
\* no control character, holds no two dots in a row and does not start with
\* a dot.
C19_SafeComponent ==
    pasteStep = "named"
    => /\ safeName # <<>>
       /\ inputName = <<>> => safeName = <<"_">>
       /\ \A k \in 1..Len(safeName) :
           /\ safeName[k] \notin {"<", ">", ":", "\"", "/", "\\", "|", "?", "*"}
           /\ safeName[k] \notin {"\t", "\n", "\r", "U+0000", "U+001F", "U+007F"}
       /\ \A k \in 1..(Len(safeName) - 1) :
           ~(safeName[k] = "." /\ safeName[k + 1] = ".")
       /\ safeName[1] # "."

\* a selection that starts with a dot, holds a separator and ends in dots
\* has been sanitized
C19_Witness ==
    /\ pasteStep = "named"
    /\ Len(inputName) >= 2
    /\ inputName[1] = "."
    /\ \E k \in 1..Len(inputName) : inputName[k] = "/"
    /\ safeName[1] = "_"

\* C20: the name returned for any input, inputs of more than 200 characters
\* included, does not end with a space or a dot.
C20_NoTrailingSpaceOrDot ==
    pasteStep = "named"
    => safeName[Len(safeName)] \notin {" ", "."}

\* a character that sanitizeFileName leaves alone wherever it stands
SafeCharacter(c) ==
    /\ ~IsDangerous(c) /\ ~IsControlCode(c)
    /\ c \notin {".", " ", LineSeparator, HighSurrogate, LowSurrogate}

\* C21: the name returned for any input has at most 200 characters, and an
\* input of more than 200 safe characters gives a name of exactly 200.
C21_AtMostLimit ==
    pasteStep = "named"
    => /\ Len(safeName) <= SliceLimit
       /\ (Len(inputName) > SliceLimit
           /\ \A k \in 1..Len(inputName) : SafeCharacter(inputName[k]))
          => Len(safeName) = SliceLimit

\* s is the name of a Windows device, in any letter case, bare or followed
\* by an extension
ReservedDeviceName(s) ==
    \E n \in {3, 4} :
        /\ n <= Len(s)
        /\ WindowsReserved(SubSeq(s, 1, n))
        /\ Len(s) = n \/ s[n + 1] = "."

\* C22: the name returned for any input is no Windows device name, bare or
\* with an extension; CON gives _CON and CON.txt gives _CON.txt.
C22_NeverReserved ==
    pasteStep = "named"
    => /\ ~ReservedDeviceName(safeName)
       /\ inputName = <<"C", "O", "N">> => safeName = <<"_", "C", "O", "N">>
       /\ inputName = <<"C", "O", "N", ".", "t", "x", "t">>
          => safeName = <<"_", "C", "O", "N", ".", "t", "x", "t">>

\* ------------------------------------------------------------------
\* claims about span attributes

\* the attribute value v spells a whole number: white space, an optional
\* sign, one or more digits, and nothing else
WholeNumber(v) ==
    /\ v # Null
    /\ \E a \in 0..Len(v) :
         /\ a < Len(v)
         /\ \A k \in 1..a : IsSpace(v[k]) \/ (k = a /\ v[k] \in {"+", "-"})
         /\ \A k \in (a + 1)..Len(v) : IsDigit(v[k])

\* the attribute value v is present and, after white space and an optional
\* sign, goes on with a digit
BeginsWithDigits(v) ==
    /\ v # Null
    /\ \E a \in 0..Len(v) :
         /\ a < Len(v)
         /\ \A k \in 1..a : IsSpace(v[k]) \/ (k = a /\ v[k] \in {"+", "-"})
         /\ IsDigit(v[a + 1])

\* the cells of table t
SpanCells(t) == {n \in Below(t) : n.tag \in {"td", "th"}}

\* table t holds no image, list or table
SpanOnly(t) == ~HasDescendant(t, {"img", "ul", "ol", "table"})

\* C23, as stated: a table without image, list or nested table whose span
\* attributes are all missing or no whole numbers ('', 'abc', '2x') is SIMPLE.
C23_NotANumberIsOne ==
    pc = "done" =>
        \A doc \in {ParseDocument(html)} :
            \A k \in 1..Len(AllTableIds(doc)) :
                \A t \in {ToTree(doc, AllTableIds(doc)[k])} :
                    (/\ SpanOnly(t)
                     /\ \A n \in SpanCells(t) :
                          /\ ~WholeNumber(getAttribute(n, "colspan"))
                          /\ ~WholeNumber(getAttribute(n, "rowspan")))
                    => ~isComplexTable(doc, AllTableIds(doc)[k])

\* C23, amended: a table without image, list or nested table whose span
\* attributes are all missing, empty or without leading digits is SIMPLE; a
\* span value that begins with digits counts as the number they spell, so
\* that '2x' makes the table COMPLEX.
C23_LeadingDigitsCount ==
    pc = "done" =>
        \A doc \in {ParseDocument(html)} :
            \A k \in 1..Len(AllTableIds(doc)) :
                \A t \in {ToTree(doc, AllTableIds(doc)[k])} :
                    /\ (/\ SpanOnly(t)
                        /\ \A n \in SpanCells(t) :
                             /\ ~BeginsWithDigits(getAttribute(n, "colspan"))
                             /\ ~BeginsWithDigits(getAttribute(n, "rowspan")))
                       => ~isComplexTable(doc, AllTableIds(doc)[k])
                    /\ (\E n \in SpanCells(t) :
                            \/ getAttribute(n, "colspan") = <<"2", "x">>
                            \/ getAttribute(n, "rowspan") = <<"2", "x">>)
                       => isComplexTable(doc, AllTableIds(doc)[k])

\* a finished conversion of a document with a table whose only span
\* attribute is 'abc', or one whose only span attribute is '2x'
C23_Witness ==
    /\ pc = "done"
    /\ \E doc \in {ParseDocument(html)} :
         \E k \in 1..Len(AllTableIds(doc)) :
             \E t \in {ToTree(doc, AllTableIds(doc)[k])} :
                 /\ SpanOnly(t)
                 /\ \E n \in SpanCells(t) :
                      getAttribute(n, "colspan") \in {<<"a", "b", "c">>, <<"2", "x">>}

\* ------------------------------------------------------------------
\* claims about the loop of preprocessComplexTables

\* the live document at the start of iteration i of the loop over the tables
\* of the parsed document doc
StoreBefore(doc, i) == IsolateLoop(doc, SubSeq(AllTableIds(doc), 1, i - 1), 1)

\* iteration i reaches the call of isComplexTable
ClassifiedAt(doc, i) ==
    closest(StoreBefore(doc, i), StoreBefore(doc, i)[AllTableIds(doc)[i]].parent,
            "table") = 0

\* table id lies in no other table of the document as parsed
TopLevelIn(doc, id) ==
    \A k \in 1..Len(AllTableIds(doc)) :
        id \notin {Descendants(doc, AllTableIds(doc)[k])[j] :
                      j \in 1..Len(Descendants(doc, AllTableIds(doc)[k]))}

\* C24: the loop calls isComplexTable once for each top-level table and for
\* no other table, and the answer it gets on the tree as rewritten so far is
\* the answer on the tree as parsed.
C24_ClassifiedOnOriginal ==
    pc = "done" =>
        \A doc \in {ParseDocument(html)} :
            /\ \A m, n \in 1..Len(AllTableIds(doc)) :
                   m # n => AllTableIds(doc)[m] # AllTableIds(doc)[n]
            /\ \A k \in 1..Len(AllTableIds(doc)) :
                   /\ ClassifiedAt(doc, k) <=> TopLevelIn(doc, AllTableIds(doc)[k])
                   /\ ClassifiedAt(doc, k)
                      => (isComplexTable(StoreBefore(doc, k), AllTableIds(doc)[k])
                          <=> isComplexTable(doc, AllTableIds(doc)[k]))
            /\ preprocessed = StoreBefore(doc, Len(AllTableIds(doc)) + 1)

\* a finished conversion of a document whose first table was replaced before
\* its second top-level table was classified, and which has a nested table
C24_Witness ==
    /\ pc = "done"
    /\ \E doc \in {ParseDocument(html)} :
         /\ \E k \in 2..Len(AllTableIds(doc)) :
              /\ ClassifiedAt(doc, k)
              /\ StoreBefore(doc, k) # doc
         /\ \E k \in 2..Len(AllTableIds(doc)) : ~ClassifiedAt(doc, k)

\* every node of a list of trees
NodesOf(nodes) == Below([kids |-> nodes])

\* C25: after the isolation pass every table in the tree is a SIMPLE table
\* that lies in no other table; no placeholder lies in a table or in another
\* placeholder; and the placeholders are those of the COMPLEX top-level
\* tables of the input, one each, so that no nested table has one of its own.
C25_AfterIsolation ==
    pc = "done" =>
        \A out \in {bodyInnerHTML(preprocessed)} :
            /\ \A n \in NodesOf(out) :
                 /\ n.tag = "table"
                    => /\ ~ComplexBySpec(n)
                       /\ \A b \in Below(n) : b.tag # "table"
                 /\ n.tag \in {"table", "complex-table"}
                    => \A b \in Below(n) : b.tag # "complex-table"
            /\ LET holders == ElementsNamed(out, {"complex-table"})
                   replaced == SelectSeq(TopLevelTables(html), ComplexBySpec)
               IN /\ Len(holders) = Len(replaced)
                  /\ \A k \in 1..Len(holders) :
                       getAttribute(holders[k], "data-html") = Serialize(replaced[k])

\* a finished conversion whose input had a table with a table nested in it
\* and a SIMPLE table, which is still in the tree
C25_Witness ==
    /\ pc = "done"
    /\ \E k \in 1..Len(html) :
         /\ html[k].tag = "table"
         /\ \E b \in Below(html[k]) : b.tag = "table"
    /\ \E n \in NodesOf(bodyInnerHTML(preprocessed)) : n.tag = "table"
    /\ \E n \in NodesOf(bodyInnerHTML(preprocessed)) : n.tag = "complex-table"

\* ------------------------------------------------------------------
\* claims about the widths of a rendered table

\* the SIMPLE top-level tables of the converted document, those without a
\* cell included
SimpleTables == SelectSeq(TopLevelTables(html), LAMBDA t : ~ComplexBySpec(t))

\* the text of cell i of row r of table t, '' where the row has no such cell
CellText(t, r, i) ==
    IF i <= Len(CellsOf(NonEmptyRows(t)[r]))
    THEN getCellContent(CellsOf(NonEmptyRows(t)[r])[i].kids) ELSE <<>>

\* max(3, the length of the longest text in column i of table t)
ColumnWidth(t, i) ==
    CHOOSE w \in 3..(3 + Len(Serialize(t))) :
        /\ \A r \in 1..Len(NonEmptyRows(t)) : Len(CellText(t, r, i)) <= w
        /\ w = 3 \/ \E r \in 1..Len(NonEmptyRows(t)) : Len(CellText(t, r, i)) = w

\* where field i of a line of table t starts: after "| " and, for each
\* column before it, the column and " | "
RECURSIVE FieldStart(_, _)
FieldStart(t, i) ==
    IF i = 1 THEN 3 ELSE FieldStart(t, i - 1) + ColumnWidth(t, i - 1) + 3

Field(t, line, i) ==
    SubSeq(line, FieldStart(t, i), FieldStart(t, i) + ColumnWidth(t, i) - 1)

\* C26: in a rendered simple table every line has, for each column i, a
\* field of max(3, longest cell text of column i in any row) characters: '-'
\* throughout in the separator, the cell text followed by spaces in the other
\* lines; the fields are framed by "| ", " | " and " |", so that all lines
\* are of one length. A table without a row that has a cell renders as ''.
C26_ColumnWidths ==
    pc = "done" =>
        \A tables \in {SimpleTables} :
            \A n \in 1..Len(tables) :
                \A t \in {tables[n]} :
                    \A md \in {convertSimpleTableToMarkdown(t)} :
                        IF Len(NonEmptyRows(t)) = 0 THEN md = <<>>
                        ELSE \A lines \in {TableLines(md)} :
                            /\ Len(lines) = Len(NonEmptyRows(t)) + 1
                            /\ Contains(result.markdown, SubSeq(md, 2, Len(md) - 1))
                            /\ \A l \in 1..Len(lines) :
                                 /\ Len(lines[l]) = FieldStart(t, WidestRow(t) + 1) - 2
                                 /\ SubSeq(lines[l], 1, 2) = <<"|", " ">>
                                 /\ \A i \in 1..WidestRow(t) :
                                      /\ SubSeq(lines[l], FieldStart(t, i + 1) - 3,
                                                FieldStart(t, i + 1) - 2) = <<" ", "|">>
                                      /\ i < WidestRow(t)
                                         => lines[l][FieldStart(t, i + 1) - 1] = " "
                            /\ \A i \in 1..WidestRow(t) :
                                 /\ Field(t, lines[2], i) = Repeat("-", ColumnWidth(t, i))
                                 /\ \A r \in 1..Len(NonEmptyRows(t)) :
                                      \A l \in {IF r = 1 THEN 1 ELSE r + 1} :
                                          Field(t, lines[l], i)
                                          = CellText(t, r, i)
                                            \o Repeat(" ", ColumnWidth(t, i)
                                                           - Len(CellText(t, r, i)))

\* a finished conversion with a rendered table whose second row is longer
\* than its header, with a column of width 3 and a wider column
C26_Witness ==
    /\ pc = "done"
    /\ \E n \in 1..Len(SimpleTables) :
         /\ Len(NonEmptyRows(SimpleTables[n])) >= 2
         /\ Len(CellsOf(NonEmptyRows(SimpleTables[n])[1])) < WidestRow(SimpleTables[n])
         /\ ColumnWidth(SimpleTables[n], 1) = 3
         /\ ColumnWidth(SimpleTables[n], 2) > 3

\* ------------------------------------------------------------------
\* claim about the un-escape step of cleanupMarkdown

\* position k of s holds the backslash of a "<digits>\." that begins its
\* line (after indentation, if any)
ListMarkerEscape(s, k) ==
    /\ s[k] = "\\"
    /\ k < Len(s) /\ s[k + 1] = "."
    /\ \E j \in 1..(k - 1) :
         /\ \A m \in j..(k - 1) : IsDigit(s[m])
         /\ \E b \in 1..j :
              /\ b = 1 \/ s[b - 1] = "\n"
              /\ \A m \in b..(j - 1) : s[m] \in {" ", "\t"}

\* the step as the claim describes it: only those backslashes go
UnescapeListMarkers(s) ==
    Concat(AsSeq([k \in 1..Len(s) |->
        IF ListMarkerEscape(s, k) THEN <<>> ELSE <<s[k]>>]))

\* the steps of cleanupMarkdown after the un-escape step
AfterUnescape(s) ==
    LET trimmed == TrimLineEnds(CollapseNewlines(s))
    IN IF trimmed = <<>> \/ trimmed[Len(trimmed)] # "\n"
       THEN trimmed \o <<"\n">> ELSE trimmed

\* C27: the un-escape step turns "<digits>\." into "<digits>." only at the
\* start of a line and leaves every other character as it is: the file
\* written is what the remaining steps make of the text so un-escaped.
C27_UnescapeOnlyMarkers ==
    \A k \in WrittenDocs :
        ContentOf(k) = AfterUnescape(UnescapeListMarkers(
                           RemoveEmptyImages(heading(TitleOf(k)) \o BodyOf(k), 1)))

\* ------------------------------------------------------------------
\* claim about the files of a batch

\* the paths that the conversion of document k wrote to
OutputPaths(k) ==
    {mdFilePath(fileUris[k].wordFileName)}
    \cup {f.path : f \in imagesWritten(fileUris[k])}

\* C28: two documents of one batch never write to the same Markdown path or
\* image path, and what a document wrote is still there when the batch is
\* over: its Markdown file holds its text and its image files hold its images.
C28_NoCollision ==
    \A k \in WrittenDocs :
        /\ \A m \in WrittenDocs : m # k => OutputPaths(k) \cap OutputPaths(m) = {}
        /\ ContentOf(k) = cleanupMarkdown(BodyOf(k), TitleOf(k))
        /\ imagesWritten(fileUris[k]) \subseteq imageFiles

\* the paths the standalone core writes for the images of docx
coreFiles == {coreCallback(i).path : i \in Written}

\* C29: convertDocxWithImages and convertDocxToMarkdown of the standalone
\* core are equivalent: for the same document, the same base name and the
\* same course of reads and writes they give every image the same ordinal and
\* the same file, and return the same markdown, imageCount and warnings.
C29_SameAsCore ==
    pc = "done" =>
        /\ \A i \in Written :
             /\ cb[i].src = coreCallback(i).src
             /\ cb[i].path = coreCallback(i).path
        /\ files = coreFiles
        /\ result = convertDocxToMarkdown

\* the calls of parseDocument that asked the symbol provider
Asked == {g \in 1..Len(parses) : parses[g].document # NoDocument}

\* the items the parse of generation g makes of the provider's answer
ItemsOf(g) == convertSymbols(parses[g].symbols, parses[g].document)

\* C30: a parse superseded by a later parseDocument call is discarded: once
\* every request in flight has completed and no timer is pending, the items
\* of a tracked document are those of the most recently started parse that
\* asked for symbols (a parse that finds no document asks for none and
\* leaves the items alone).
C30_LatestParseWins ==
    (/\ \A g \in 1..Len(parses) : parses[g].pc = "returned"
     /\ closeTimers = {} /\ opening = {} /\ ~refreshTimeout
     /\ documentUri # NoDocument
     /\ Asked # {})
    => \E g \in Asked : (\A h \in Asked : h <= g) /\ items = ItemsOf(g)
====
